---- MODULE Spec2Model ----
(***************************************************************************)
(* Model of httphandlers.TransactionAwareRequestLoggingHandler and of the  *)
(* response-tracking wrapper built by wrapWriter (responseLogger,          *)
(* hijackLogger, closeNotifyWriter, hijackCloseNotifier).                  *)
(*                                                                         *)
(* One request is served: the logging handler resolves the transaction id, *)
(* sets it on the response header, wraps the response writer, delegates to *)
(* the downstream handler (which issues an arbitrary bounded sequence of   *)
(* calls on the wrapper and may edit the request header), measures the     *)
(* elapsed time and writes one log entry.                                  *)
(***************************************************************************)
EXTENDS Integers, Sequences, FiniteSets, TLC

\* ------------------------------------------------------------------ bounds
MaxCalls == 2        \* calls the downstream handler makes on the wrapper

\* --------------------------------------------------------------- constants
StatusOK == 200
StatusSwitchingProtocols == 101
\* Header names and URIs are sequences of characters, so that case folding
\* and pattern matching work on them character by character.
TransactionIDHeader == <<"X", "-", "R", "e", "q", "u", "e", "s", "t", "-", "I", "d">>  \* "X-Request-Id"
TransactionIDKey == "transaction_id"

Bodies == {<<>>, <<7>>, <<7, 9>>}         \* byte slices passed to Write
StatusCodes == {200, 404}                 \* codes the downstream handler passes
KnownIDs == {"KnownTransactionId"}        \* ids a client sends
FreshIDs == {"tid_generated"}             \* ids the generator returns
HeaderValues == {"tid_edited"}                \* values the handler stores
Durations == {0, 123}                     \* elapsed milliseconds

\* http.Header: a function from header names to their lists of values.
\* Get returns the first value of the name or "", Set stores one value.
NoHeader == [k \in {} |-> <<>>]
HeaderGet(h, k) == IF k \in DOMAIN h /\ h[k] # <<>> THEN h[k][1] ELSE ""
HeaderSet(h, k, v) ==
    [x \in DOMAIN h \cup {k} |-> IF x = k THEN <<v>> ELSE h[x]]
HeaderDel(h, k) == [x \in DOMAIN h \ {k} |-> h[x]]

NoWrapper == [type |-> "none"]

\* context.Context: a function from keys to values; Value of a key that is
\* not set is nil.
NoContext == [k \in {} |-> ""]
ContextValue(ctx, key) == IF key \in DOMAIN ctx THEN ctx[key] ELSE "nil"
ArrivalContexts == {[k \in {"testKey"} |-> "testVal"]}

NoPanic == "none"

\* The handler instance of the served exchange is built without FilterHeaders.
filterHeadersFn == [kind |-> "nil"]
PanicValues == {"boom"}                   \* values the downstream handler panics with

VARIABLES
    pc,            \* position of ServeHTTP
    w,             \* capabilities of the raw http.ResponseWriter (the sink)
    reqHeader,     \* req.Header
    arrivalHeader, \* req.Header as it was when the request arrived
    respHeader,    \* w.Header()
    transactionID, \* local variable of ServeHTTP
    clockStarted,  \* t := time.Now() has run
    duration,      \* local variable of ServeHTTP, milliseconds
    loggers,       \* the responseLogger objects allocated by wrapWriter
    wrapper,       \* the value wrapWriter returned
    issued,        \* calls the downstream handler made on the wrapper
    sinkCalls,     \* calls the raw sink received
    steps,         \* the steps ServeHTTP has taken, in order
    reqContext,    \* req.Context() of the inbound request
    handlerContext,\* context of the request handed to the downstream handler
    propagated,    \* the panic value that left ServeHTTP, if any
    log,           \* entries written to the logger
    \* getRequestHeaders and writeRequestLog applied to one request
    stage,         \* which of the applications below have run
    request,       \* the *http.Request
    headerFilter,  \* the handler's filterHeadersFn
    redacted,      \* getRequestHeaders(req, filterHeadersFn)
    reredacted,    \* getRequestHeaders applied to the headers in redacted
    emitted,       \* the entry writeRequestLog built
    found,         \* getUUIDsFromURI(uri)
    \* one handler instance serving several requests, one goroutine each
    handlerInstance, \* the fields of the transactionAwareRequestLoggingHandler
    heap,          \* every responseLogger allocated so far
    gpc,           \* goroutine -> position of its ServeHTTP
    gHeader,       \* goroutine -> req.Header of its request
    gRespHeader,   \* goroutine -> w.Header() of its response
    gTransactionID,\* goroutine -> its local transactionID
    gTracker,      \* goroutine -> its loggingResponseWriter, an index in heap
    gCalls,        \* goroutine -> calls its downstream handler made
    entries,       \* entries written to the shared logger, with their writer
    \* RequestBodyGzipHandler, applied chain times around one handler
    chain,         \* number of requestBodyGzipHandler values wrapped
    layer,         \* the wrapper whose ServeHTTP runs next; chain + 1: the handler
    gzReq,         \* the *http.Request as the next ServeHTTP receives it
    gzArrival,     \* the request as it arrived
    gzStatus,      \* status of the response, 0 before there is one
    delivered,     \* what the wrapped handler received, per invocation
    \* HTTPMetricsHandler serving requests, one goroutine each
    registry,      \* metrics.Registry: timer name -> timer
    registry0,     \* the registry before the first request
    mMethod,       \* request -> req.Method
    mpc,           \* request -> position of its ServeHTTP
    invoked,       \* request -> times the wrapped handler was invoked for it
    \* ServiceClient.Do on one request
    client,        \* the ServiceClient fields ServiceCode, Version, Runbook
    cpc,           \* position of Do
    cReq,          \* the *http.Request: Header and the id in its Context
    cArrival,      \* the request as passed to Do
    innerCalls,    \* requests c.Client.Do received
    innerResult,   \* what c.Client.Do returns
    returned,      \* what Do returned
    \* one responseLogger written by concurrent tasks of the handler
    shared,        \* the fields status and size of the responseLogger
    rOp,           \* task -> the call it makes
    rpc,           \* task -> position inside its call
    rLoaded,       \* task -> the l.size it loaded for l.size += size
    rSinkCalls,    \* calls the sink received, in order
    rRecorded      \* status values some task stored

serveVars == <<pc, w, reqHeader, arrivalHeader, respHeader, transactionID,
               clockStarted, duration, loggers, wrapper, issued, sinkCalls,
               steps, reqContext, handlerContext, propagated, log>>
redactionVars == <<stage, request, headerFilter, redacted, reredacted,
                   emitted, found>>
\* variables of the other specifications, which one exchange leaves alone
concurrentVars == <<handlerInstance, heap, gpc, gHeader, gRespHeader,
                    gTransactionID, gTracker, gCalls, entries>>
gzipVars == <<chain, layer, gzReq, gzArrival, gzStatus, delivered>>
metricsVars == <<registry, registry0, mMethod, mpc, invoked>>
clientVars == <<client, cpc, cReq, cArrival, innerCalls, innerResult, returned>>
raceVars == <<shared, rOp, rpc, rLoaded, rSinkCalls, rRecorded>>
laterVars == <<gzipVars, metricsVars, clientVars, raceVars>>
firstVars == <<serveVars, redactionVars, concurrentVars>>
elsewhere == <<redactionVars, concurrentVars, laterVars>>
otherThanRedaction == <<serveVars, concurrentVars, laterVars>>
otherThanConcurrent == <<serveVars, redactionVars, laterVars>>
otherThanGzip == <<firstVars, metricsVars, clientVars, raceVars>>
otherThanMetrics == <<firstVars, gzipVars, clientVars, raceVars>>
otherThanClient == <<firstVars, gzipVars, metricsVars, raceVars>>
otherThanRace == <<firstVars, gzipVars, metricsVars, clientVars>>
vars == <<serveVars, elsewhere>>

\* No request is held for redaction.
RedactionIdle ==
    /\ stage = "idle"
    /\ request = "none"
    /\ headerFilter = "none"
    /\ redacted = "none"
    /\ reredacted = "none"
    /\ emitted = "none"
    /\ found = "none"

\* No goroutine serves a request.
ConcurrentIdle ==
    /\ handlerInstance = "none"
    /\ heap = <<>>
    /\ gpc = "none"
    /\ gHeader = "none"
    /\ gRespHeader = "none"
    /\ gTransactionID = "none"
    /\ gTracker = "none"
    /\ gCalls = "none"
    /\ entries = <<>>

\* No request is in a chain of gzip handlers.
GzipIdle ==
    /\ chain = 0
    /\ layer = 0
    /\ gzReq = "none"
    /\ gzArrival = "none"
    /\ gzStatus = 0
    /\ delivered = <<>>

\* No request is served by the metrics handler.
MetricsIdle ==
    /\ registry = "none"
    /\ registry0 = "none"
    /\ mMethod = "none"
    /\ mpc = "none"
    /\ invoked = "none"

\* No request is passed to ServiceClient.Do.
ClientIdle ==
    /\ client = "none"
    /\ cpc = "idle"
    /\ cReq = "none"
    /\ cArrival = "none"
    /\ innerCalls = <<>>
    /\ innerResult = "none"
    /\ returned = "none"

\* No task writes to a tracker.
RaceIdle ==
    /\ shared = "none"
    /\ rOp = "none"
    /\ rpc = "none"
    /\ rLoaded = "none"
    /\ rSinkCalls = <<>>
    /\ rRecorded = {}

\* The specifications defined after the first three are idle.
LaterIdle == GzipIdle /\ MetricsIdle /\ ClientIdle /\ RaceIdle

\* ------------------------------------------------- the response tracker
\* &responseLogger{w: w}
NewResponseLogger == [status |-> 0, size |-> 0]

\* wrapWriter: object 1 is &responseLogger{w: w}; object 2, allocated only
\* when the sink is a http.Hijacker, is &hijackLogger{responseLogger{w: w}}.
wrapWriterObjects(sink) ==
    IF sink.hijacker THEN <<NewResponseLogger, NewResponseLogger>>
    ELSE <<NewResponseLogger>>

wrapWriterDropsCloseNotify(sink) ==
    LET logger == IF sink.hijacker THEN 2 ELSE 1
    IN  [type |-> IF sink.hijacker THEN "hijackLogger" ELSE "responseLogger",
         loggingResponseWriter |-> logger, Hijacker |-> 0]

wrapWriter(sink) ==
    LET logger == IF sink.hijacker THEN 2 ELSE 1
        ok1 == sink.hijacker       \* logger.(http.Hijacker): *hijackLogger
        ok2 == sink.closeNotifier  \* w.(http.CloseNotifier)
    IN  IF ok1 /\ ok2
        THEN [type |-> "hijackCloseNotifier",
              loggingResponseWriter |-> logger, Hijacker |-> logger]
        ELSE IF ok2
        THEN [type |-> "closeNotifyWriter",
              loggingResponseWriter |-> logger, Hijacker |-> 0]
        ELSE [type |-> IF sink.hijacker THEN "hijackLogger" ELSE "responseLogger",
              loggingResponseWriter |-> logger, Hijacker |-> 0]

\* Method sets of the four dynamic types wrapWriter can return.
ExposesHijack(wr) == wr.type \in {"hijackLogger", "hijackCloseNotifier"}
ExposesCloseNotify(wr) == wr.type \in {"closeNotifyWriter", "hijackCloseNotifier"}
ExposesFlush(wr) ==
    wr.type \in {"responseLogger", "hijackLogger", "closeNotifyWriter",
                 "hijackCloseNotifier"}

\* The object a Hijack call on the wrapper reaches.
HijackTarget(wr) ==
    IF wr.type = "hijackCloseNotifier" THEN wr.Hijacker
    ELSE wr.loggingResponseWriter

\* responseLogger.Status / responseLogger.Size through the wrapper
Status == loggers[wrapper.loggingResponseWriter].status
Size == loggers[wrapper.loggingResponseWriter].size

Wrapped == wrapper # NoWrapper

\* ------------------------------------------------------------------- Init
Init ==
    /\ pc = "Start"
    /\ w \in [hijacker : BOOLEAN, closeNotifier : BOOLEAN, flusher : BOOLEAN]
    /\ reqHeader \in {NoHeader} \cup
                     {HeaderSet(NoHeader, TransactionIDHeader, v) :
                         v \in KnownIDs \cup {""}}
    /\ arrivalHeader = reqHeader
    /\ respHeader = NoHeader
    /\ transactionID = ""
    /\ clockStarted = FALSE
    /\ duration = 0
    /\ loggers = <<>>
    /\ wrapper = NoWrapper
    /\ issued = <<>>
    /\ sinkCalls = <<>>
    /\ steps = <<>>
    /\ reqContext \in ArrivalContexts
    /\ handlerContext = NoContext
    /\ propagated = NoPanic
    /\ log = <<>>
    /\ RedactionIdle
    /\ ConcurrentIdle
    /\ LaterIdle

\* ---------------------------------------------------------------- ServeHTTP
\* transactionidutils.GetTransactionIDFromRequest: the header value if it is
\* not empty, else a generated id, which is also stored on the request header.
GetTransactionIDFromRequest(header, fresh) ==
    IF HeaderGet(header, TransactionIDHeader) # ""
    THEN [id |-> HeaderGet(header, TransactionIDHeader), header |-> header]
    ELSE [id |-> fresh, header |-> HeaderSet(header, TransactionIDHeader, fresh)]

\* transactionID := transactionidutils.GetTransactionIDFromRequest(req)
ResolveID ==
    /\ pc = "Start"
    /\ \E fresh \in FreshIDs :
          LET r == GetTransactionIDFromRequest(reqHeader, fresh)
          IN  /\ transactionID' = r.id
              /\ reqHeader' = r.header
    /\ pc' = "IDResolved"
    /\ steps' = Append(steps, "resolve")
    /\ UNCHANGED <<elsewhere, w, reqContext, handlerContext, propagated,
                   arrivalHeader, respHeader, clockStarted, duration,
                   loggers, wrapper, issued, sinkCalls, log>>

SetResponseHeaderSkipped ==
    /\ pc = "IDResolved"
    /\ pc' = "HeaderSet"
    /\ steps' = Append(steps, "setHeader")
    /\ UNCHANGED <<elsewhere, w, reqContext, handlerContext, propagated,
                   reqHeader, arrivalHeader, respHeader, transactionID,
                   clockStarted, duration, loggers, wrapper, issued, sinkCalls,
                   log>>

\* w.Header().Set(transactionidutils.TransactionIDHeader, transactionID)
SetResponseHeader ==
    /\ pc = "IDResolved"
    /\ respHeader' = HeaderSet(respHeader, TransactionIDHeader, transactionID)
    /\ pc' = "HeaderSet"
    /\ steps' = Append(steps, "setHeader")
    /\ UNCHANGED <<elsewhere, w, reqContext, handlerContext, propagated,
                   reqHeader, arrivalHeader, transactionID, clockStarted,
                   duration, loggers, wrapper, issued, sinkCalls, log>>

\* t := time.Now()
StartClock ==
    /\ pc = "HeaderSet"
    /\ clockStarted' = TRUE
    /\ pc' = "ClockStarted"
    /\ steps' = Append(steps, "startClock")
    /\ UNCHANGED <<elsewhere, w, reqContext, handlerContext, propagated,
                   reqHeader, arrivalHeader, respHeader, transactionID,
                   duration, loggers, wrapper, issued, sinkCalls, log>>

\* loggingResponseWriter := wrapWriter(w)
WrapWriter ==
    /\ pc = "ClockStarted"
    /\ wrapper' = wrapWriter(w)
    /\ loggers' = wrapWriterObjects(w)
    /\ pc' = "Wrapped"
    /\ steps' = Append(steps, "wrap")
    /\ UNCHANGED <<elsewhere, w, reqContext, handlerContext, propagated,
                   reqHeader, arrivalHeader, respHeader, transactionID,
                   clockStarted, duration, issued, sinkCalls, log>>

\* h.handler.ServeHTTP(loggingResponseWriter, req): the call
Delegate ==
    /\ pc = "Wrapped"
    /\ handlerContext' = reqContext
    /\ pc' = "Delegated"
    /\ steps' = Append(steps, "delegate")
    /\ UNCHANGED <<elsewhere, w, reqContext, propagated,
                   reqHeader, arrivalHeader, respHeader, transactionID,
                   clockStarted, duration, loggers, wrapper, issued, sinkCalls,
                   log>>

\* ------------------------------------- the downstream handler's calls
CanCall == pc = "Delegated" /\ Len(issued) < MaxCalls

\* responseLogger.Write: the fields after the call, size being the count the
\* sink returned
WriteStateCountsOnlySuccess(l, size, err) ==
    [status |-> IF l.status = 0 THEN StatusOK ELSE l.status,
     size   |-> IF err THEN l.size ELSE l.size + size]

WriteStateStatusAfterSuccess(l, size, err) ==
    [status |-> IF l.status = 0 /\ ~err THEN StatusOK ELSE l.status,
     size   |-> l.size + size]

WriteState(l, size, err) ==
    [status |-> IF l.status = 0 THEN StatusOK ELSE l.status,
     size   |-> l.size + size]

\* responseLogger.Write(b); the sink's Write returns (n, err)
WriteReturnsLen(b, n, err) ==
    /\ CanCall
    /\ loggers' = [loggers EXCEPT ![wrapper.loggingResponseWriter] =
                                      WriteState(@, n, err)]
    /\ sinkCalls' = Append(sinkCalls,
                           [op |-> "Write", arg |-> b, ret |-> <<n, err>>])
    /\ issued' = Append(issued,
                        [op |-> "Write", arg |-> b, ret |-> <<Len(b), err>>])
    /\ UNCHANGED <<elsewhere, pc, w, reqContext, handlerContext, propagated,
                   reqHeader, arrivalHeader, respHeader, transactionID,
                   clockStarted, duration, wrapper, steps, log>>

Write(b, n, err) ==
    /\ CanCall
    /\ loggers' = [loggers EXCEPT ![wrapper.loggingResponseWriter] =
                                      WriteState(@, n, err)]
    /\ sinkCalls' = Append(sinkCalls,
                           [op |-> "Write", arg |-> b, ret |-> <<n, err>>])
    /\ issued' = Append(issued,
                        [op |-> "Write", arg |-> b, ret |-> <<n, err>>])
    /\ UNCHANGED <<elsewhere, pc, w, reqContext, handlerContext, propagated,
                   reqHeader, arrivalHeader, respHeader, transactionID,
                   clockStarted, duration, wrapper, steps, log>>

\* responseLogger.WriteHeader: the fields after the call
WriteHeaderState(l, s) == [status |-> s, size |-> l.size]

\* responseLogger.WriteHeader(s)
WriteHeader(s) ==
    /\ CanCall
    /\ sinkCalls' = Append(sinkCalls,
                           [op |-> "WriteHeader", arg |-> s, ret |-> <<>>])
    /\ loggers' = [loggers EXCEPT ![wrapper.loggingResponseWriter] =
                                      WriteHeaderState(@, s)]
    /\ issued' = Append(issued,
                        [op |-> "WriteHeader", arg |-> s, ret |-> <<>>])
    /\ UNCHANGED <<elsewhere, pc, w, reqContext, handlerContext, propagated,
                   reqHeader, arrivalHeader, respHeader, transactionID,
                   clockStarted, duration, wrapper, steps, log>>

\* responseLogger.Header(): returns the sink's header map
Header ==
    /\ CanCall
    /\ sinkCalls' = Append(sinkCalls,
                           [op |-> "Header", arg |-> <<>>, ret |-> "w.Header"])
    /\ issued' = Append(issued,
                        [op |-> "Header", arg |-> <<>>, ret |-> "w.Header"])
    /\ UNCHANGED <<elsewhere, pc, w, reqContext, handlerContext, propagated,
                   reqHeader, arrivalHeader, respHeader, transactionID,
                   clockStarted, duration, loggers, wrapper, steps, log>>

\* responseLogger.Flush: what reaches the sink
FlushForwardsAlways(sink) == <<[op |-> "Flush", arg |-> <<>>, ret |-> <<>>]>>

FlushForwards(sink) ==
    IF sink.flusher THEN <<[op |-> "Flush", arg |-> <<>>, ret |-> <<>>]>>
    ELSE <<>>

\* responseLogger.Flush(), callable on every wrapper
Flush ==
    /\ CanCall
    /\ ExposesFlush(wrapper)
    /\ sinkCalls' = sinkCalls \o FlushForwards(w)
    /\ issued' = Append(issued, [op |-> "Flush", arg |-> <<>>, ret |-> <<>>])
    /\ UNCHANGED <<elsewhere, pc, w, reqContext, handlerContext, propagated,
                   reqHeader, arrivalHeader, respHeader, transactionID,
                   clockStarted, duration, loggers, wrapper, steps, log>>

\* hijackLogger.Hijack: the fields after the call, err being the sink's error
HijackStateIgnoresError(l, err) ==
    [status |-> IF l.status = 0 THEN StatusSwitchingProtocols ELSE l.status,
     size   |-> l.size]

HijackState(l, err) ==
    [status |-> IF ~err /\ l.status = 0 THEN StatusSwitchingProtocols
                ELSE l.status,
     size   |-> l.size]

\* The (conn, rw, err) of the sink's Hijack.
HijackResult(err) ==
    IF err THEN <<"nil", "nil", TRUE>> ELSE <<"conn", "rw", FALSE>>

\* hijackLogger.Hijack(), callable when the wrapper has the method
Hijack(err) ==
    /\ CanCall
    /\ ExposesHijack(wrapper)
    /\ sinkCalls' = Append(sinkCalls,
                           [op |-> "Hijack", arg |-> <<>>,
                            ret |-> HijackResult(err)])
    /\ loggers' = [loggers EXCEPT ![HijackTarget(wrapper)] =
                                      HijackState(@, err)]
    /\ issued' = Append(issued,
                        [op |-> "Hijack", arg |-> <<>>,
                         ret |-> HijackResult(err)])
    /\ UNCHANGED <<elsewhere, pc, w, reqContext, handlerContext, propagated,
                   reqHeader, arrivalHeader, respHeader, transactionID,
                   clockStarted, duration, wrapper, steps, log>>

\* The downstream handler holds the same *http.Request and may edit its
\* header: Set (v given) or Del.
HandlerSetsRequestHeader(v) ==
    /\ pc = "Delegated"
    /\ reqHeader' = HeaderSet(reqHeader, TransactionIDHeader, v)
    /\ UNCHANGED <<elsewhere, pc, w, reqContext, handlerContext, propagated,
                   arrivalHeader, respHeader, transactionID,
                   clockStarted, duration, loggers, wrapper, issued, sinkCalls,
                   steps, log>>

HandlerDeletesRequestHeader ==
    /\ pc = "Delegated"
    /\ reqHeader' = HeaderDel(reqHeader, TransactionIDHeader)
    /\ UNCHANGED <<elsewhere, pc, w, reqContext, handlerContext, propagated,
                   arrivalHeader, respHeader, transactionID,
                   clockStarted, duration, loggers, wrapper, issued, sinkCalls,
                   steps, log>>

\* h.handler.ServeHTTP returns
HandlerReturn ==
    /\ pc = "Delegated"
    /\ pc' = "Returned"
    /\ UNCHANGED <<elsewhere, w, reqContext, handlerContext, propagated,
                   reqHeader, arrivalHeader, respHeader, transactionID,
                   clockStarted, duration, loggers, wrapper, issued, sinkCalls,
                   steps, log>>

HandlerPanicLogged(v) ==
    /\ pc = "Delegated"
    /\ pc' = "Panicked"
    /\ propagated' = v
    /\ log' = Append(log, [status |-> Status, size |-> Size])
    /\ UNCHANGED <<elsewhere, w, reqContext, handlerContext,
                   reqHeader, arrivalHeader, respHeader, transactionID,
                   clockStarted, duration, loggers, wrapper, issued, sinkCalls,
                   steps>>

\* h.handler.ServeHTTP panics: ServeHTTP has no recover, the rest is skipped
HandlerPanic(v) ==
    /\ pc = "Delegated"
    /\ pc' = "Panicked"
    /\ propagated' = v
    /\ UNCHANGED <<elsewhere, w, reqContext, handlerContext,
                   reqHeader, arrivalHeader, respHeader, transactionID,
                   clockStarted, duration, loggers, wrapper, issued, sinkCalls,
                   steps, log>>

\* duration := time.Since(t)
Measure(d) ==
    /\ pc = "Returned"
    /\ clockStarted
    /\ duration' = d
    /\ pc' = "Measured"
    /\ steps' = Append(steps, "measure")
    /\ UNCHANGED <<elsewhere, w, reqContext, handlerContext, propagated,
                   reqHeader, arrivalHeader, respHeader, transactionID,
                   clockStarted, loggers, wrapper, issued, sinkCalls,
                   log>>

\* ------------------------------------------------ strings as characters
UpperCase == <<"A", "B", "C", "D", "E", "F", "G", "H", "I", "J", "K", "L", "M",
               "N", "O", "P", "Q", "R", "S", "T", "U", "V", "W", "X", "Y", "Z">>
LowerCase == <<"a", "b", "c", "d", "e", "f", "g", "h", "i", "j", "k", "l", "m",
               "n", "o", "p", "q", "r", "s", "t", "u", "v", "w", "x", "y", "z">>
\* Case folding of one character and of a string, as (?i) compares them.
FoldChar(c) ==
    IF \E i \in 1..Len(UpperCase) : UpperCase[i] = c
    THEN LowerCase[CHOOSE i \in 1..Len(UpperCase) : UpperCase[i] = c]
    ELSE c
Fold(str) == [i \in 1..Len(str) |-> FoldChar(str[i])]

RECURSIVE Join(_, _)
\* strings.Join(list, sep)
Join(list, sep) ==
    IF list = <<>> THEN ""
    ELSE IF Len(list) = 1 THEN list[1]
    ELSE list[1] \o sep \o Join(Tail(list), sep)

\* ---------------------------------------------------------- headerDenyList
\* Each pattern is (?i:^text$) when end is TRUE and (?i:^text) otherwise.
headerDenyList ==
    <<
       [text |-> <<"U", "s", "e", "r", "-", "A", "g", "e", "n", "t">>,
        end |-> TRUE],
       [text |-> <<"R", "e", "f", "e", "r", "e", "r">>,
        end |-> TRUE],
       [text |-> <<"X", "-", "R", "e", "q", "u", "e", "s", "t", "-", "I", "d">>,
        end |-> TRUE],
       [text |-> <<"X", "-", "A", "p", "i", "-", "K", "e", "y">>,
        end |-> TRUE],
       [text |-> <<"X", "-", "V", "a", "r", "n", "i", "s", "h">>,
        end |-> TRUE],
       [text |-> <<"X", "-", "T", "i", "m", "e", "r">>,
        end |-> TRUE],
       [text |-> <<"C", "o", "n", "n", "e", "c", "t", "i", "o", "n">>,
        end |-> TRUE],
       [text |-> <<"C", "o", "n", "t", "e", "n", "t", "-", "L", "e", "n", "g", "t", "h">>,
        end |-> TRUE],
       [text |-> <<"C", "d", "n", "-", "L", "o", "o", "p">>,
        end |-> TRUE],
       [text |-> <<"F", "a", "s", "t", "l", "y">>,
        end |-> FALSE]
    >>

\* A matcher that treats every pattern as a prefix pattern.
MatchStringIgnoresEnd(r, key) ==
    /\ Len(key) >= Len(r.text)
    /\ Fold(SubSeq(key, 1, Len(r.text))) = Fold(r.text)

\* A matcher without the (?i) flag.
MatchStringCaseSensitive(r, key) ==
    IF r.end
    THEN key = r.text
    ELSE Len(key) >= Len(r.text) /\ SubSeq(key, 1, Len(r.text)) = r.text

\* regexp.MatchString for the patterns of headerDenyList
MatchString(r, key) ==
    IF r.end
    THEN Len(key) = Len(r.text) /\ Fold(key) = Fold(r.text)
    ELSE /\ Len(key) >= Len(r.text)
         /\ Fold(SubSeq(key, 1, Len(r.text))) = Fold(r.text)

\* HeaderFilter values a caller passes to FilterHeaders; NilFilter is the
\* handler built without the option.
NilFilter == [kind |-> "nil"]
CallFilter(fn, key) ==
    CASE fn.kind = "keepAll"         -> TRUE
      [] fn.kind = "dropEqualFold"   -> Fold(key) # Fold(fn.name)
      [] fn.kind = "dropExact"       -> key # fn.name

\* An allowedFn that lets the caller's filter overrule the deny-list.
allowedFnFilterFirst(key, additionalFilterFn) ==
    IF additionalFilterFn # NilFilter
    THEN CallFilter(additionalFilterFn, key)
    ELSE ~\E i \in 1..Len(headerDenyList) : MatchString(headerDenyList[i], key)

\* allowedFn of getRequestHeaders
allowedFn(key, additionalFilterFn) ==
    IF \E i \in 1..Len(headerDenyList) : MatchString(headerDenyList[i], key)
    THEN FALSE
    ELSE IF additionalFilterFn # NilFilter
    THEN CallFilter(additionalFilterFn, key)
    ELSE TRUE

\* A getRequestHeaders that logs only the first value of each header.
getRequestHeadersFirstValue(header, additionalFilterFn) ==
    [key \in {k \in DOMAIN header : allowedFn(k, additionalFilterFn)} |->
        header[key][1]]

\* getRequestHeaders(req, additionalFilterFn)
getRequestHeaders(header, additionalFilterFn) ==
    [key \in {k \in DOMAIN header : allowedFn(k, additionalFilterFn)} |->
        Join(header[key], ", ")]

\* ---------------------------------------------------------- getUUIDsFromURI
HexDigits == {"0", "1", "2", "3", "4", "5", "6", "7", "8", "9",
              "a", "b", "c", "d", "e", "f", "A", "B", "C", "D", "E", "F"}
UUIDLen == 36
\* The pattern at position i of uri:
\* [0-9a-fA-F]{8}-[0-9a-fA-F]{4}-[1-5][0-9a-fA-F]{3}-[89abAB][0-9a-fA-F]{3}-[0-9a-fA-F]{12}
MatchesUUIDAt(uri, i) ==
    /\ i + UUIDLen - 1 <= Len(uri)
    /\ \A j \in 1..UUIDLen :
          LET c == uri[i + j - 1]
          IN  CASE j \in {9, 14, 19, 24} -> c = "-"
                [] j = 15 -> c \in {"1", "2", "3", "4", "5"}
                [] j = 20 -> c \in {"8", "9", "a", "b", "A", "B"}
                [] OTHER  -> c \in HexDigits

RECURSIVE FindAllFromOverlapping(_, _)
\* A scan that resumes one character after the start of a match.
FindAllFromOverlapping(uri, i) ==
    IF i + UUIDLen - 1 > Len(uri) THEN <<>>
    ELSE IF MatchesUUIDAt(uri, i)
    THEN <<SubSeq(uri, i, i + UUIDLen - 1)>> \o FindAllFromOverlapping(uri, i + 1)
    ELSE FindAllFromOverlapping(uri, i + 1)

RECURSIVE FindAllFrom(_, _)
\* re.FindAllString(uri, -1) from position i: leftmost match, then on after it
FindAllFrom(uri, i) ==
    IF i + UUIDLen - 1 > Len(uri) THEN <<>>
    ELSE IF MatchesUUIDAt(uri, i)
    THEN <<SubSeq(uri, i, i + UUIDLen - 1)>> \o FindAllFrom(uri, i + UUIDLen)
    ELSE FindAllFrom(uri, i + 1)

getUUIDsFromURI(uri) == FindAllFrom(uri, 1)

\* ------------------------------------------------------------ writeRequestLog
\* *http.Request: the fields writeRequestLog reads. URLRequestURI is
\* req.URL.RequestURI().
Request(header, requestURI, method, protoMajor, host, urlRequestURI) ==
    [Header |-> header, RequestURI |-> requestURI, Method |-> method,
     ProtoMajor |-> protoMajor, Host |-> host, URLRequestURI |-> urlRequestURI]

\* The request of the served exchange: GET http://example.com over HTTP/1.1,
\* built by http.NewRequest, which leaves RequestURI empty.
ServedRequest(header) ==
    Request(header, <<>>, "GET", 1,
            <<"e", "x", "a", "m", "p", "l", "e", ".", "c", "o", "m">>, <<"/">>)

\* A choice of uri that takes the authority for CONNECT over any major
\* version from 2 up.
EffectiveURIFromMajor2Up(req) ==
    LET uri == IF req.ProtoMajor >= 2 /\ req.Method = "CONNECT"
               THEN req.Host ELSE req.RequestURI
    IN  IF uri = <<>> THEN req.URLRequestURI ELSE uri

\* uri of writeRequestLog
EffectiveURI(req) ==
    LET uri == IF req.ProtoMajor = 2 /\ req.Method = "CONNECT"
               THEN req.Host ELSE req.RequestURI
    IN  IF uri = <<>> THEN req.URLRequestURI ELSE uri

\* entry.WithField(key, value)
WithField(entry, key, value) ==
    [f \in DOMAIN entry \cup {key} |-> IF f = key THEN value ELSE entry[f]]

\* strings.Join(uuids, ",") on character sequences
RECURSIVE JoinUUIDs(_)
JoinUUIDs(uuids) ==
    IF Len(uuids) = 1 THEN uuids[1]
    ELSE uuids[1] \o <<",">> \o JoinUUIDs(Tail(uuids))

\* A writer of the entry that adds headers and uuid whatever they hold.
writeRequestLogAlwaysFields(req, additionalFilterFn, responseTime, status, size) ==
    [responsetime   |-> responseTime,
     method         |-> req.Method,
     transaction_id |-> HeaderGet(req.Header, TransactionIDHeader),
     uri            |-> EffectiveURI(req),
     status         |-> status,
     size           |-> size,
     headers        |-> getRequestHeaders(req.Header, additionalFilterFn),
     uuid           |-> IF getUUIDsFromURI(EffectiveURI(req)) = <<>> THEN <<>>
                        ELSE JoinUUIDs(getUUIDsFromURI(EffectiveURI(req)))]

\* A writer of the entry that reports 200 for a response that recorded no
\* status.
writeRequestLogDefaultsOK(req, additionalFilterFn, responseTime, status, size) ==
    [responsetime   |-> responseTime,
     method         |-> req.Method,
     transaction_id |-> HeaderGet(req.Header, TransactionIDHeader),
     uri            |-> EffectiveURI(req),
     status         |-> IF status = 0 THEN StatusOK ELSE status,
     size           |-> size]

\* writeRequestLog: the entry built from the request and the tracked outcome
\* (the fields host, username, protocol, referer and userAgent are not kept)
writeRequestLog(req, additionalFilterFn, responseTime, status, size) ==
    LET transactionID_ == HeaderGet(req.Header, TransactionIDHeader)
        uri == EffectiveURI(req)
        entry == [responsetime   |-> responseTime,
                  method         |-> req.Method,
                  transaction_id |-> transactionID_,
                  uri            |-> uri,
                  status         |-> status,
                  size           |-> size]
        headers == getRequestHeaders(req.Header, additionalFilterFn)
        entry2 == IF Cardinality(DOMAIN headers) # 0
                  THEN WithField(entry, "headers", headers) ELSE entry
        uuids == getUUIDsFromURI(uri)
    IN  IF Len(uuids) > 0
        THEN WithField(entry2, "uuid", JoinUUIDs(uuids)) ELSE entry2

WriteRequestLogTwice ==
    /\ pc = "Measured"
    /\ log' = log \o <<writeRequestLog(ServedRequest(reqHeader), filterHeadersFn,
                                  duration, Status, Size),
                      writeRequestLog(ServedRequest(reqHeader), filterHeadersFn,
                                  duration, Status, Size)>>
    /\ pc' = "Logged"
    /\ steps' = Append(steps, "log")
    /\ UNCHANGED <<elsewhere, w, reqContext, handlerContext, propagated,
                   reqHeader, arrivalHeader, respHeader, transactionID,
                   clockStarted, duration, loggers, wrapper, issued, sinkCalls>>

\* h.writeRequestLog(req, duration, loggingResponseWriter.Status(),
\*                   loggingResponseWriter.Size())
WriteRequestLog ==
    /\ pc = "Measured"
    /\ log' = Append(log, writeRequestLog(ServedRequest(reqHeader), filterHeadersFn,
                                  duration, Status, Size))
    /\ pc' = "Logged"
    /\ steps' = Append(steps, "log")
    /\ UNCHANGED <<elsewhere, w, reqContext, handlerContext, propagated,
                   reqHeader, arrivalHeader, respHeader, transactionID,
                   clockStarted, duration, loggers, wrapper, issued, sinkCalls>>

Next ==
    \/ ResolveID
    \/ SetResponseHeader
    \/ StartClock
    \/ WrapWriter
    \/ Delegate
    \/ \E b \in Bodies, err \in BOOLEAN : \E n \in 0..Len(b) :
          /\ (n < Len(b) => err)
          /\ Write(b, n, err)
    \/ \E s \in StatusCodes : WriteHeader(s)
    \/ Header
    \/ Flush
    \/ \E err \in BOOLEAN : Hijack(err)
    \/ \E v \in HeaderValues : HandlerSetsRequestHeader(v)
    \/ HandlerDeletesRequestHeader
    \/ HandlerReturn
    \/ \E v \in PanicValues : HandlerPanic(v)
    \/ \E d \in Durations : Measure(d)
    \/ WriteRequestLog

Spec == Init /\ [][Next]_vars

\* =================================================== redaction and the entry
\* getRequestHeaders and writeRequestLog as functions of the request: their
\* inputs are drawn in the initial state and the actions apply them.
MaxHeaders == 2          \* header names in one request

HeaderNames ==
    {
     <<"U", "s", "e", "r", "-", "A", "g", "e", "n", "t">>,
     <<"R", "e", "f", "e", "r", "e", "r">>,
     <<"X", "-", "R", "e", "q", "u", "e", "s", "t", "-", "I", "d">>,
     <<"X", "-", "A", "p", "i", "-", "K", "e", "y">>,
     <<"x", "-", "a", "p", "i", "-", "k", "e", "y">>,
     <<"X", "-", "V", "a", "r", "n", "i", "s", "h">>,
     <<"X", "-", "V", "a", "r", "n", "i", "s", "h", "p", "a", "s", "s", "t", "h", "r", "o", "u", "g", "h">>,
     <<"X", "-", "T", "i", "m", "e", "r">>,
     <<"C", "o", "n", "n", "e", "c", "t", "i", "o", "n">>,
     <<"C", "o", "n", "t", "e", "n", "t", "-", "L", "e", "n", "g", "t", "h">>,
     <<"C", "d", "n", "-", "L", "o", "o", "p">>,
     <<"F", "a", "s", "t", "l", "y", "-", "F", "f">>,
     <<"f", "a", "s", "t", "l", "y", "-", "s", "s", "l">>,
     <<"X", "-", "F", "a", "s", "t", "l", "y">>,
     <<"A", "c", "c", "e", "p", "t">>,
     <<"A", "l", "l", "o", "w", "e", "d", "-", "H", "e", "a", "d", "e", "r">>,
     <<"D", "e", "n", "i", "e", "d", "-", "H", "e", "a", "d", "e", "r">>,
     <<"d", "e", "n", "i", "e", "d", "-", "h", "e", "a", "d", "e", "r">>
    }
ValueLists == {<<"header1">>, <<"header1", "header2">>}

\* req.Header: up to MaxHeaders names, each with one or two values
Headers ==
    UNION {[names -> ValueLists] :
              names \in {ns \in SUBSET HeaderNames : Cardinality(ns) <= MaxHeaders}}

\* HeaderFilter values: none, one that keeps every name, the filter of the
\* test (strings.EqualFold) and one that compares the name as spelled.
DeniedHeader == <<"d", "e", "n", "i", "e", "d", "-", "h", "e", "a", "d", "e", "r">>
HeaderFilters ==
    {NilFilter,
     [kind |-> "keepAll"],
     [kind |-> "dropEqualFold", name |-> DeniedHeader],
     [kind |-> "dropExact", name |-> DeniedHeader]}

UUID1 == <<"0", "c", "2", "c", "7", "0", "c", "c", "-", "b", "8", "0", "1", "-", "1", "1", "e", "8", "-", "b", "b", "c", "3", "-", "c", "c", "d", "7", "d", "e", "0", "8", "5", "f", "f", "e">>
UUID2 == <<"8", "7", "6", "4", "5", "0", "7", "0", "-", "7", "D", "8", "A", "-", "4", "9", "2", "E", "-", "9", "6", "9", "5", "-", "B", "F", "6", "1", "A", "C", "2", "B", "4", "D", "1", "8">>
\* version digit 6: outside [1-5]
NotUUID == <<"0", "c", "2", "c", "7", "0", "c", "c", "-", "b", "8", "0", "1", "-", "6", "1", "e", "8", "-", "b", "b", "c", "3", "-", "c", "c", "d", "7", "d", "e", "0", "8", "5", "f", "f", "e">>
ContentPath == <<"/", "c", "o", "n", "t", "e", "n", "t", "/">>
URIs ==
    {<<>>,
     <<"/">>,
     ContentPath \o UUID1,
     ContentPath \o UUID1 \o <<"/">> \o UUID2,
     ContentPath \o UUID1 \o <<"/">> \o UUID1,
     \* a second match begins inside the first
     UUID1 \o SubSeq(UUID1, 9, UUIDLen),
     ContentPath \o NotUUID,
     ContentPath \o SubSeq(UUID1, 1, UUIDLen - 1)}
Hosts == {<<>>, <<"a", "p", "i", ".", "f", "t", ".", "c", "o", "m">>, UUID2}

\* Requests: every header map with the plain target, and every target with
\* a small header map.
Requests ==
    {Request(h, <<"/">>, "GET", 1, <<"a", "p", "i", ".", "f", "t", ".", "c", "o", "m">>, <<"/">>) : h \in Headers}
    \cup
    {Request(h, uri, m, major, host, url) :
        h \in {NoHeader, [names \in {<<"A", "c", "c", "e", "p", "t">>} |-> <<"header1">>]},
        uri \in URIs, m \in {"GET", "CONNECT"}, major \in {1, 2, 3},
        host \in Hosts, url \in {<<"/">>, ContentPath \o UUID1}}

\* The variables of the served exchange hold nothing.
ServeIdle ==
    /\ pc = "Idle"
    /\ w = [hijacker |-> FALSE, closeNotifier |-> FALSE, flusher |-> FALSE]
    /\ reqHeader = NoHeader
    /\ arrivalHeader = NoHeader
    /\ respHeader = NoHeader
    /\ transactionID = ""
    /\ clockStarted = FALSE
    /\ duration = 0
    /\ loggers = <<>>
    /\ wrapper = NoWrapper
    /\ issued = <<>>
    /\ sinkCalls = <<>>
    /\ steps = <<>>
    /\ reqContext = NoContext
    /\ handlerContext = NoContext
    /\ propagated = NoPanic
    /\ log = <<>>

InitLog ==
    /\ ServeIdle
    /\ stage = "request"
    /\ request \in Requests
    /\ headerFilter \in HeaderFilters
    /\ redacted = "none"
    /\ reredacted = "none"
    /\ emitted = "none"
    /\ found = "none"
    /\ ConcurrentIdle
    /\ LaterIdle

\* headers := getRequestHeaders(req, h.filterHeadersFn)
Redact ==
    /\ stage = "request"
    /\ redacted' = getRequestHeaders(request.Header, headerFilter)
    /\ stage' = "redacted"
    /\ UNCHANGED <<otherThanRedaction, request, headerFilter, reredacted,
                   emitted, found>>

\* getRequestHeaders on a request whose headers are the ones just produced
RedactAgain ==
    /\ stage = "redacted"
    /\ reredacted' = getRequestHeaders([k \in DOMAIN redacted |-> <<redacted[k]>>],
                                       headerFilter)
    /\ stage' = "reredacted"
    /\ UNCHANGED <<otherThanRedaction, request, headerFilter, redacted,
                   emitted, found>>

\* h.writeRequestLog(req, duration, status, size)
EmitEntry ==
    /\ stage = "reredacted"
    /\ \E d \in Durations :
          emitted' = writeRequestLog(request, headerFilter, d, StatusOK, 100)
    /\ stage' = "logged"
    /\ UNCHANGED <<otherThanRedaction, request, headerFilter, redacted,
                   reredacted, found>>

\* uuids := getUUIDsFromURI(uri), on the uri of the entry
FindUUIDs ==
    /\ stage = "logged"
    /\ found' = getUUIDsFromURI(EffectiveURI(request))
    /\ stage' = "scanned"
    /\ UNCHANGED <<otherThanRedaction, request, headerFilter, redacted,
                   reredacted, emitted>>

NextLog ==
    \/ Redact
    \/ RedactAgain
    \/ EmitEntry
    \/ FindUUIDs

SpecLog == InitLog /\ [][NextLog]_vars

\* ======================================== one handler, concurrent requests
\* net/http runs ServeHTTP of the one handler value in a goroutine per
\* request. Each goroutine has its own req and w; the logger is shared.
MaxConcurrentCalls == 2      \* calls one downstream handler makes

Goroutines == {1, 2}
\* The X-Request-Id each request may arrive with and the id generated for it
\* otherwise; ids of different requests differ.
ArrivalID == <<"tid_1", "tid_2">>
GeneratedID == <<"tid_generated_1", "tid_generated_2">>
\* The raw http.ResponseWriter of each request: no optional interface.
PlainSink == [hijacker |-> FALSE, closeNotifier |-> FALSE, flusher |-> FALSE]
\* What the sink's Write returns for the two-byte body.
WriteResults == {<<2, FALSE>>, <<1, TRUE>>}

InitConc ==
    /\ ServeIdle
    /\ RedactionIdle
    /\ LaterIdle
    /\ handlerInstance \in
          [logger : {"log"}, handler : {"next"},
           filterHeadersFn : {NilFilter, [kind |-> "keepAll"]}]
    /\ heap = <<>>
    /\ gpc = [g \in Goroutines |-> "Start"]
    /\ gHeader \in {hd \in [Goroutines -> {NoHeader} \cup
                              {HeaderSet(NoHeader, TransactionIDHeader, ArrivalID[g]) :
                                  g \in Goroutines}] :
                       \A g \in Goroutines :
                           hd[g] # NoHeader =>
                               HeaderGet(hd[g], TransactionIDHeader) = ArrivalID[g]}
    /\ gRespHeader = [g \in Goroutines |-> NoHeader]
    /\ gTransactionID = [g \in Goroutines |-> ""]
    /\ gTracker = [g \in Goroutines |-> 0]
    /\ gCalls = [g \in Goroutines |-> <<>>]
    /\ entries = <<>>

\* A wrapWriter whose tracker is the first object ever allocated.
TrackerOfSharesFirst(objects, sink) == wrapWriter(sink).loggingResponseWriter

\* The loggingResponseWriter wrapWriter returns, the heap holding `objects`
\* before the call: an object the call has just allocated.
TrackerOf(objects, sink) == Len(objects) + wrapWriter(sink).loggingResponseWriter

\* ServeHTTP up to the delegation: resolve the id, set the response header,
\* take the time, wrap the writer.
ServeBegin(g) ==
    /\ gpc[g] = "Start"
    /\ LET r == GetTransactionIDFromRequest(gHeader[g], GeneratedID[g])
       IN  /\ gTransactionID' = [gTransactionID EXCEPT ![g] = r.id]
           /\ gHeader' = [gHeader EXCEPT ![g] = r.header]
           /\ gRespHeader' = [gRespHeader EXCEPT ![g] =
                                 HeaderSet(@, TransactionIDHeader, r.id)]
    /\ heap' = heap \o wrapWriterObjects(PlainSink)
    /\ gTracker' = [gTracker EXCEPT ![g] = TrackerOf(heap, PlainSink)]
    /\ gpc' = [gpc EXCEPT ![g] = "Delegated"]
    /\ UNCHANGED <<otherThanConcurrent, handlerInstance, gCalls, entries>>

\* The downstream handler of g may call its writer.
CanCallOn(g) == gpc[g] = "Delegated" /\ Len(gCalls[g]) < MaxConcurrentCalls

\* responseLogger.Write on the writer of g
ServeWrite(g, n, err) ==
    /\ CanCallOn(g)
    /\ heap' = [heap EXCEPT ![gTracker[g]] = WriteState(@, n, err)]
    /\ gCalls' = [gCalls EXCEPT ![g] =
                     Append(@, [op |-> "Write", arg |-> <<7, 9>>,
                                ret |-> <<n, err>>])]
    /\ UNCHANGED <<otherThanConcurrent, handlerInstance, gpc, gHeader,
                   gRespHeader, gTransactionID, gTracker, entries>>

\* responseLogger.WriteHeader on the writer of g
ServeWriteHeader(g, code) ==
    /\ CanCallOn(g)
    /\ heap' = [heap EXCEPT ![gTracker[g]] = WriteHeaderState(@, code)]
    /\ gCalls' = [gCalls EXCEPT ![g] =
                     Append(@, [op |-> "WriteHeader", arg |-> code,
                                ret |-> <<>>])]
    /\ UNCHANGED <<otherThanConcurrent, handlerInstance, gpc, gHeader,
                   gRespHeader, gTransactionID, gTracker, entries>>

\* h.handler.ServeHTTP(loggingResponseWriter, req) returns to g
ServeReturn(g) ==
    /\ gpc[g] = "Delegated"
    /\ gpc' = [gpc EXCEPT ![g] = "Returned"]
    /\ UNCHANGED <<otherThanConcurrent, handlerInstance, heap, gHeader,
                   gRespHeader, gTransactionID, gTracker, gCalls, entries>>

\* duration := time.Since(t); h.writeRequestLog(req, duration, Status(), Size())
ServeLog(g, d) ==
    /\ gpc[g] = "Returned"
    /\ entries' = Append(entries,
                         [by    |-> g,
                          entry |-> writeRequestLog(ServedRequest(gHeader[g]),
                                        handlerInstance.filterHeadersFn, d,
                                        heap[gTracker[g]].status,
                                        heap[gTracker[g]].size)])
    /\ gpc' = [gpc EXCEPT ![g] = "Logged"]
    /\ UNCHANGED <<otherThanConcurrent, handlerInstance, heap, gHeader,
                   gRespHeader, gTransactionID, gTracker, gCalls>>

NextConc ==
    \/ \E g \in Goroutines : ServeBegin(g)
    \/ \E g \in Goroutines, res \in WriteResults : ServeWrite(g, res[1], res[2])
    \/ \E g \in Goroutines, code \in StatusCodes \ {StatusOK} :
          ServeWriteHeader(g, code)
    \/ \E g \in Goroutines : ServeReturn(g)
    \/ \E g \in Goroutines, d \in Durations \ {0} : ServeLog(g, d)

SpecConc == InitConc /\ [][NextConc]_vars

\* =================================================== RequestBodyGzipHandler
MaxChain == 2                \* RequestBodyGzipHandler applications in a chain
StatusBadRequest == 400

ContentEncoding == <<"C", "o", "n", "t", "e", "n", "t", "-", "E", "n", "c", "o", "d", "i", "n", "g">>
ContentType == <<"C", "o", "n", "t", "e", "n", "t", "-", "T", "y", "p", "e">>

\* Bytes. A gzip stream is the two magic bytes, the deflated data (here each
\* byte moved up by 100) and a trailer holding the length of the data.
GzipMagic == <<31, 139>>
\* gz(input) of the test: the gzip stream of input
gz(input) ==
    GzipMagic \o [i \in 1..Len(input) |-> input[i] + 100] \o <<Len(input)>>

\* What reading a gzip.Reader to its end yields, `stream` being what reading
\* the underlying reader yields: the data inflated up to the first byte
\* that is no deflated byte, and an error unless all of it was sound.
\* header tells whether gzip.NewReader accepted the stream.
Gunzip(stream) ==
    IF Len(stream.data) < 2 \/ SubSeq(stream.data, 1, 2) # GzipMagic
    THEN [data |-> <<>>, err |-> TRUE, header |-> FALSE]
    ELSE LET rest == SubSeq(stream.data, 3, Len(stream.data))
             complete == ~stream.err /\ rest # <<>>
             payload == IF complete THEN SubSeq(rest, 1, Len(rest) - 1) ELSE rest
             sound == {k \in 0..Len(payload) : \A j \in 1..k : payload[j] > 100}
             n == CHOOSE k \in sound : \A m \in sound : m <= k
         IN  [data   |-> [j \in 1..n |-> payload[j] - 100],
              err    |-> ~complete \/ n < Len(payload) \/ rest[Len(rest)] # n,
              header |-> TRUE]

RECURSIVE ReadLayers(_, _)
\* Reading to the end a body that is n gzip.Readers over the bytes raw.
ReadLayers(raw, n) ==
    IF n = 0 THEN [data |-> raw, err |-> FALSE, header |-> TRUE]
    ELSE Gunzip(ReadLayers(raw, n - 1))

\* ioutil.ReadAll(r.Body)
ReadAll(body) ==
    LET r == ReadLayers(body.raw, body.gzipReaders)
    IN  [data |-> r.data, err |-> r.err]

\* gzip.NewReader(req.Body): err is set when the stream has no gzip header.
NewReader(body) ==
    [unzipped |-> [raw |-> body.raw, gzipReaders |-> body.gzipReaders + 1],
     err      |-> ~ReadLayers(body.raw, body.gzipReaders + 1).header]

\* A handler that leaves Content-Encoding on the request it forwards.
requestBodyGzipHandlerKeepsHeader(req) ==
    IF HeaderGet(req.Header, ContentEncoding) = "gzip"
    THEN IF NewReader(req.Body).err
         THEN [forward |-> FALSE, status |-> StatusBadRequest, req |-> req]
         ELSE [forward |-> TRUE, status |-> 0,
               req |-> [Header |-> req.Header,
                        Body   |-> NewReader(req.Body).unzipped]]
    ELSE [forward |-> TRUE, status |-> 0, req |-> req]

\* A handler that unzips whatever has a gzip header, declared or not.
requestBodyGzipHandlerSniffs(req) ==
    IF ~NewReader(req.Body).err
    THEN [forward |-> TRUE, status |-> 0,
          req |-> [Header |-> HeaderDel(req.Header, ContentEncoding),
                   Body   |-> NewReader(req.Body).unzipped]]
    ELSE IF HeaderGet(req.Header, ContentEncoding) = "gzip"
    THEN [forward |-> FALSE, status |-> StatusBadRequest, req |-> req]
    ELSE [forward |-> TRUE, status |-> 0, req |-> req]

\* requestBodyGzipHandler.ServeHTTP up to the call of h.handler: whether it
\* forwards, the status it answers with otherwise, and the request after it.
requestBodyGzipHandler(req) ==
    IF HeaderGet(req.Header, ContentEncoding) = "gzip"
    THEN IF NewReader(req.Body).err
         THEN [forward |-> FALSE, status |-> StatusBadRequest, req |-> req]
         ELSE [forward |-> TRUE, status |-> 0,
               req |-> [Header |-> HeaderDel(req.Header, ContentEncoding),
                        Body   |-> NewReader(req.Body).unzipped]]
    ELSE [forward |-> TRUE, status |-> 0, req |-> req]

\* Request bodies: plain text, nothing, its gzip stream, the gzip stream of
\* that stream, a stream with a gzip header and unsound data, a stream cut
\* before its trailer, and a single magic byte.
PlainText == <<1, 2>>
GzipBodies ==
    {PlainText,
     <<>>,
     gz(PlainText),
     gz(gz(PlainText)),
     GzipMagic \o <<101, 7, 2>>,
     GzipMagic \o <<101, 102>>,
     <<31>>}
GzipHeaders ==
    {hd \in [{ContentEncoding, ContentType} ->
                {<<>>, <<"gzip">>, <<"GZIP">>, <<"deflate">>, <<"text/plain">>}] :
        /\ hd[ContentType] \in {<<>>, <<"text/plain">>}
        /\ hd[ContentEncoding] # <<"text/plain">>}
\* A header map without the names that have no value.
Present(hd) == [k \in {x \in DOMAIN hd : hd[x] # <<>>} |-> hd[k]]

\* The three specifications defined first are idle.
FirstIdle == ServeIdle /\ RedactionIdle /\ ConcurrentIdle

InitGzip ==
    /\ FirstIdle
    /\ MetricsIdle
    /\ ClientIdle
    /\ RaceIdle
    /\ chain \in 1..MaxChain
    /\ layer = 1
    /\ gzArrival \in {[Header |-> Present(hd),
                       Body   |-> [raw |-> b, gzipReaders |-> 0]] :
                         hd \in GzipHeaders, b \in GzipBodies}
    /\ gzReq = gzArrival
    /\ gzStatus = 0
    /\ delivered = <<>>

\* The wrapper at `layer` forwards: h.handler.ServeHTTP(w, req)
GzipForward ==
    /\ layer \in 1..chain
    /\ gzStatus = 0
    /\ requestBodyGzipHandler(gzReq).forward
    /\ gzReq' = requestBodyGzipHandler(gzReq).req
    /\ layer' = layer + 1
    /\ UNCHANGED <<otherThanGzip, chain, gzArrival, gzStatus, delivered>>

\* The wrapper at `layer` answers itself: http.Error(w, ..., 400); return
GzipReject ==
    /\ layer \in 1..chain
    /\ gzStatus = 0
    /\ ~requestBodyGzipHandler(gzReq).forward
    /\ gzStatus' = requestBodyGzipHandler(gzReq).status
    /\ gzReq' = requestBodyGzipHandler(gzReq).req
    /\ UNCHANGED <<otherThanGzip, chain, layer, gzArrival, delivered>>

\* The wrapped handler of the test: reads the body to its end and answers.
GzipDownstream(code) ==
    /\ layer = chain + 1
    /\ gzStatus = 0
    /\ delivered' = Append(delivered, [body   |-> ReadAll(gzReq.Body),
                                       header |-> gzReq.Header])
    /\ gzStatus' = code
    /\ UNCHANGED <<otherThanGzip, chain, layer, gzReq, gzArrival>>

NextGzip ==
    \/ GzipForward
    \/ GzipReject
    \/ \E code \in StatusCodes : GzipDownstream(code)

SpecGzip == InitGzip /\ [][NextGzip]_vars

\* ======================================================= HTTPMetricsHandler
MaxRequests == 3             \* requests served through the metrics handler

MetricsRequests == 1..MaxRequests
Methods == {"GET", "PUT"}

\* metrics.NewTimer(): a timer that has recorded nothing
NewTimer == [count |-> 0]

\* A lookup that registers a new timer under the name whatever is there.
GetOrRegisterTimerReplaces(name, r) ==
    [n \in DOMAIN r \cup {name} |-> IF n = name THEN NewTimer ELSE r[n]]

\* metrics.GetOrRegisterTimer(name, r): the registry after the call; the
\* timer returned is the one under name.
GetOrRegisterTimer(name, r) ==
    IF name \in DOMAIN r THEN r
    ELSE [n \in DOMAIN r \cup {name} |-> IF n = name THEN NewTimer ELSE r[n]]

\* Timer.Update(d): one more event recorded
Update(timer) == [timer EXCEPT !.count = @ + 1]

\* Registries before the first request: empty, or holding a timer with one
\* update as in the test, under one of the methods.
InitMetrics ==
    /\ FirstIdle
    /\ GzipIdle
    /\ ClientIdle
    /\ RaceIdle
    /\ registry \in {[n \in names |-> Update(NewTimer)] : names \in SUBSET Methods}
    /\ registry0 = registry
    /\ mMethod \in [MetricsRequests -> Methods]
    /\ mpc = [r \in MetricsRequests |-> "Start"]
    /\ invoked = [r \in MetricsRequests |-> 0]

\* t := metrics.GetOrRegisterTimer(req.Method, h.registry)
MetricsGetTimer(r) ==
    /\ mpc[r] = "Start"
    /\ registry' = GetOrRegisterTimer(mMethod[r], registry)
    /\ mpc' = [mpc EXCEPT ![r] = "Timing"]
    /\ UNCHANGED <<otherThanMetrics, registry0, mMethod, invoked>>

\* t.Time: the function passed runs h.handler.ServeHTTP(w, req)
MetricsDelegate(r) ==
    /\ mpc[r] = "Timing"
    /\ invoked' = [invoked EXCEPT ![r] = @ + 1]
    /\ mpc' = [mpc EXCEPT ![r] = "Returned"]
    /\ UNCHANGED <<otherThanMetrics, registry, registry0, mMethod>>

\* t.Time: after the function returned, t.Update(time.Since(ts))
MetricsUpdate(r) ==
    /\ mpc[r] = "Returned"
    /\ registry' = [registry EXCEPT ![mMethod[r]] = Update(@)]
    /\ mpc' = [mpc EXCEPT ![r] = "Done"]
    /\ UNCHANGED <<otherThanMetrics, registry0, mMethod, invoked>>

NextMetrics ==
    \/ \E r \in MetricsRequests : MetricsGetTimer(r)
    \/ \E r \in MetricsRequests : MetricsDelegate(r)
    \/ \E r \in MetricsRequests : MetricsUpdate(r)

SpecMetrics == InitMetrics /\ [][NextMetrics]_vars

\* ========================================================== ServiceClient.Do
UserAgentHeader == <<"U", "s", "e", "r", "-", "A", "g", "e", "n", "t">>
AcceptHeader == <<"A", "c", "c", "e", "p", "t">>

\* req.Header.Values(key)
HeaderValues_(hd, key) == IF key \in DOMAIN hd THEN hd[key] ELSE <<>>

\* transactionidutils.GetTransactionIDFromContext(ctx): the id and whether
\* the lookup failed
GetTransactionIDFromContext(ctx) ==
    IF ContextValue(ctx, TransactionIDKey) = "nil"
    THEN [tid |-> "", err |-> TRUE]
    ELSE [tid |-> ContextValue(ctx, TransactionIDKey), err |-> FALSE]

\* fmt.Sprintf("%s/%s", ...) or fmt.Sprintf("%s/%s (+%s)", ...)
Agent(c) ==
    IF c.Runbook # ""
    THEN c.ServiceCode \o "/" \o c.Version \o " (+" \o c.Runbook \o ")"
    ELSE c.ServiceCode \o "/" \o c.Version

\* A Do that sets User-Agent whenever the request's User-Agent reads empty.
WithUserAgentWhenEmpty(c, hd) ==
    IF HeaderGet(hd, UserAgentHeader) = ""
    THEN HeaderSet(hd, UserAgentHeader, Agent(c))
    ELSE hd

\* Do, first part: the header after the User-Agent block
WithUserAgent(c, hd) ==
    IF Len(HeaderValues_(hd, UserAgentHeader)) = 0
    THEN HeaderSet(hd, UserAgentHeader, Agent(c))
    ELSE hd

\* A Do that prefers the id of the context to the header of the request.
WithTransactionIDFromContextFirst(hd, ctx) ==
    IF ~GetTransactionIDFromContext(ctx).err
    THEN HeaderSet(hd, TransactionIDHeader, GetTransactionIDFromContext(ctx).tid)
    ELSE hd

\* Do, second part: the header after the X-Request-Id block
WithTransactionID(hd, ctx) ==
    IF Len(HeaderValues_(hd, TransactionIDHeader)) = 0
    THEN IF ~GetTransactionIDFromContext(ctx).err
         THEN HeaderSet(hd, TransactionIDHeader,
                        GetTransactionIDFromContext(ctx).tid)
         ELSE hd
    ELSE hd

\* Requests as the test builds them: User-Agent unset, set to a name or set
\* to the empty string; X-Request-Id likewise; an id in the context or not.
ClientHeaders ==
    {Present(hd) :
        hd \in [{UserAgentHeader, TransactionIDHeader, AcceptHeader} ->
                   {<<>>, <<"">>, <<"test-agent">>, <<"tid_request">>}] }
ClientContexts == {NoContext, [k \in {TransactionIDKey} |-> "tid_test"]}
ServiceClients ==
    [ServiceCode : {"service"}, Version : {"v1.0"}, Runbook : {"", "runbook.com"}]
\* What the inner client's Do returns: a response, or an error.
InnerResults == {[resp |-> "response", err |-> "nil"],
                 [resp |-> "nil", err |-> "connection refused"]}

InitClient ==
    /\ FirstIdle
    /\ GzipIdle
    /\ MetricsIdle
    /\ RaceIdle
    /\ client \in ServiceClients
    /\ cpc = "Start"
    /\ cArrival \in [Header : {hd \in ClientHeaders :
                                  /\ HeaderValues_(hd, UserAgentHeader) # <<"tid_request">>
                                  /\ HeaderValues_(hd, TransactionIDHeader) # <<"test-agent">>
                                  /\ HeaderValues_(hd, AcceptHeader) \in {<<>>, <<"test-agent">>}},
                     Context : ClientContexts]
    /\ cReq = cArrival
    /\ innerCalls = <<>>
    /\ innerResult \in InnerResults
    /\ returned = "none"

\* Do: the User-Agent block
ClientSetUserAgent ==
    /\ cpc = "Start"
    /\ cReq' = [cReq EXCEPT !.Header = WithUserAgent(client, @)]
    /\ cpc' = "AgentDone"
    /\ UNCHANGED <<otherThanClient, client, cArrival, innerCalls, innerResult,
                   returned>>

\* Do: the X-Request-Id block
ClientSetTransactionID ==
    /\ cpc = "AgentDone"
    /\ cReq' = [cReq EXCEPT !.Header = WithTransactionID(@, cReq.Context)]
    /\ cpc' = "TidDone"
    /\ UNCHANGED <<otherThanClient, client, cArrival, innerCalls, innerResult,
                   returned>>

\* return c.Client.Do(req)
ClientCallInner ==
    /\ cpc = "TidDone"
    /\ innerCalls' = Append(innerCalls, cReq)
    /\ returned' = innerResult
    /\ cpc' = "Returned"
    /\ UNCHANGED <<otherThanClient, client, cReq, cArrival, innerResult>>

NextClient ==
    \/ ClientSetUserAgent
    \/ ClientSetTransactionID
    \/ ClientCallInner

SpecClient == InitClient /\ [][NextClient]_vars

\* ================================= one responseLogger, concurrent callers
MaxTasks == 2                \* tasks of one handler writing concurrently

Tasks == 1..MaxTasks

InitRace ==
    /\ FirstIdle
    /\ GzipIdle
    /\ MetricsIdle
    /\ ClientIdle
    /\ shared = NewResponseLogger
    /\ rOp = [t \in Tasks |-> [kind |-> "none", size |-> 0, status |-> 0]]
    /\ rpc = [t \in Tasks |-> "Idle"]
    /\ rLoaded = [t \in Tasks |-> 0]
    /\ rSinkCalls = <<>>
    /\ rRecorded = {}

\* A task calls Write on the shared responseLogger.
RaceCallWrite(t) ==
    /\ rpc[t] = "Idle"
    /\ rOp' = [rOp EXCEPT ![t].kind = "Write"]
    /\ rpc' = [rpc EXCEPT ![t] = "CheckStatus"]
    /\ UNCHANGED <<otherThanRace, shared, rLoaded, rSinkCalls, rRecorded>>

\* A task calls WriteHeader(s) on the shared responseLogger.
RaceCallWriteHeader(t, s) ==
    /\ rpc[t] = "Idle"
    /\ rOp' = [rOp EXCEPT ![t].kind = "WriteHeader", ![t].status = s]
    /\ rpc' = [rpc EXCEPT ![t] = "SinkWriteHeader"]
    /\ UNCHANGED <<otherThanRace, shared, rLoaded, rSinkCalls, rRecorded>>

\* Write: if l.status == 0
RaceCheckStatus(t) ==
    /\ rpc[t] = "CheckStatus"
    /\ rpc' = [rpc EXCEPT ![t] = IF shared.status = 0 THEN "SetOK" ELSE "SinkWrite"]
    /\ UNCHANGED <<otherThanRace, shared, rOp, rLoaded, rSinkCalls, rRecorded>>

\* Write: l.status = http.StatusOK
RaceSetOK(t) ==
    /\ rpc[t] = "SetOK"
    /\ shared' = [shared EXCEPT !.status = StatusOK]
    /\ rRecorded' = rRecorded \cup {StatusOK}
    /\ rpc' = [rpc EXCEPT ![t] = "SinkWrite"]
    /\ UNCHANGED <<otherThanRace, rOp, rLoaded, rSinkCalls>>

\* Write: size, err := l.w.Write(b)
RaceSinkWrite(t, res) ==
    /\ rpc[t] = "SinkWrite"
    /\ rOp' = [rOp EXCEPT ![t].size = res[1]]
    /\ rSinkCalls' = Append(rSinkCalls, [task |-> t, n |-> res[1]])
    /\ rpc' = [rpc EXCEPT ![t] = "LoadSize"]
    /\ UNCHANGED <<otherThanRace, shared, rLoaded, rRecorded>>

\* Write: l.size += size, the read of l.size
RaceLoadSize(t) ==
    /\ rpc[t] = "LoadSize"
    /\ rLoaded' = [rLoaded EXCEPT ![t] = shared.size]
    /\ rpc' = [rpc EXCEPT ![t] = "StoreSize"]
    /\ UNCHANGED <<otherThanRace, shared, rOp, rSinkCalls, rRecorded>>

\* Write: l.size += size, the store to l.size; then return
RaceStoreSize(t) ==
    /\ rpc[t] = "StoreSize"
    /\ shared' = [shared EXCEPT !.size = rLoaded[t] + rOp[t].size]
    /\ rpc' = [rpc EXCEPT ![t] = "Done"]
    /\ UNCHANGED <<otherThanRace, rOp, rLoaded, rSinkCalls, rRecorded>>

\* WriteHeader: l.w.WriteHeader(s)
RaceSinkWriteHeader(t) ==
    /\ rpc[t] = "SinkWriteHeader"
    /\ rpc' = [rpc EXCEPT ![t] = "StoreStatus"]
    /\ UNCHANGED <<otherThanRace, shared, rOp, rLoaded, rSinkCalls, rRecorded>>

\* WriteHeader: l.status = s
RaceStoreStatus(t) ==
    /\ rpc[t] = "StoreStatus"
    /\ shared' = [shared EXCEPT !.status = rOp[t].status]
    /\ rRecorded' = rRecorded \cup {rOp[t].status}
    /\ rpc' = [rpc EXCEPT ![t] = "Done"]
    /\ UNCHANGED <<otherThanRace, rOp, rLoaded, rSinkCalls>>

NextRace ==
    \/ \E t \in Tasks : RaceCallWrite(t)
    \/ \E t \in Tasks, s \in StatusCodes : RaceCallWriteHeader(t, s)
    \/ \E t \in Tasks : RaceCheckStatus(t)
    \/ \E t \in Tasks : RaceSetOK(t)
    \/ \E t \in Tasks, res \in WriteResults : RaceSinkWrite(t, res)
    \/ \E t \in Tasks : RaceLoadSize(t)
    \/ \E t \in Tasks : RaceStoreSize(t)
    \/ \E t \in Tasks : RaceSinkWriteHeader(t)
    \/ \E t \in Tasks : RaceStoreStatus(t)

SpecRace == InitRace /\ [][NextRace]_vars

\* ------------------------------------------------------ claim vocabulary
RECURSIVE SumOfWriteCounts(_)
\* Sum of the counts the sink's Write returned over a sequence of sink calls.
SumOfWriteCounts(calls) ==
    IF calls = <<>> THEN 0
    ELSE (IF Head(calls).op = "Write" THEN Head(calls).ret[1] ELSE 0)
         + SumOfWriteCounts(Tail(calls))

IsWrite(c) == c.op = "Write"
IsWriteHeader(c) == c.op = "WriteHeader"
IsCore(c) == c.op \in {"Write", "WriteHeader", "Header"}
Last(calls) == calls[Len(calls)]

\* The step is one call of the named method on the wrapper.
CallStep(op) == Len(issued') = Len(issued) + 1 /\ Last(issued').op = op

\* A call that records a status: WriteHeader, Write, or a Hijack without error.
RecordsStatus(c) ==
    \/ c.op \in {"Write", "WriteHeader"}
    \/ c.op = "Hijack" /\ ~c.ret[3]

\* ---------------------------------------------------------------------- C1
\* C1: Size() equals the sum of the counts the sink's Write returned over all
\* Write calls so far, counts returned together with an error included; it is
\* 0 before the first Write and never decreases.
C1_SizeIsSumOfSinkCounts ==
    /\ [](Wrapped => Size = SumOfWriteCounts(sinkCalls))
    /\ [][Wrapped => Size' >= Size]_vars

\* Two writes, one of them failing after a partial count, both counted.
C1_Witness ==
    /\ Wrapped
    /\ Len(sinkCalls) = 2
    /\ IsWrite(sinkCalls[1]) /\ sinkCalls[1].ret = <<1, TRUE>>
    /\ sinkCalls[1].arg = <<7, 9>>
    /\ IsWrite(sinkCalls[2]) /\ sinkCalls[2].ret = <<2, FALSE>>
    /\ Size = 3

\* ---------------------------------------------------------------------- C2
\* C2: once a WriteHeader call was made, Status() equals the code passed to
\* the first WriteHeader call; later WriteHeader calls do not change it.
C2_StatusIsFirstWriteHeader ==
    Wrapped =>
        \A i \in 1..Len(issued) :
            (IsWriteHeader(issued[i])
             /\ \A j \in 1..(i - 1) : ~IsWriteHeader(issued[j]))
            => Status = issued[i].arg

\* ---------------------------------------------------------------------- C3
\* C3: Status() is 0 until the first WriteHeader, Write or successful Hijack;
\* a Write at status 0 records 200 whether or not the sink's write succeeds;
\* a Write at a status already set leaves the status unchanged.
C3_WriteRecordsOKOnce ==
    /\ []((Wrapped /\ \A i \in 1..Len(issued) : ~RecordsStatus(issued[i]))
            => Status = 0)
    /\ [][CallStep("Write") =>
            Status' = IF Status = 0 THEN StatusOK ELSE Status]_vars

\* The first call is a Write the sink fails without accepting a byte.
C3_Witness ==
    /\ Wrapped
    /\ Len(issued) = 1
    /\ IsWrite(issued[1]) /\ issued[1].ret = <<0, TRUE>>
    /\ Status = StatusOK

\* ---------------------------------------------------------------------- C4
\* C4: a Hijack through the wrapper records 101 exactly when the sink's Hijack
\* returns no error and the status was 0; otherwise the status is unchanged;
\* the size is unchanged; the sink's (conn, rw, err) is returned unchanged and
\* the status is read through the same wrapper's Status().
C4_HijackRecordsSwitchingProtocols ==
    [][CallStep("Hijack") =>
        /\ Status' = IF ~Last(issued').ret[3] /\ Status = 0
                     THEN StatusSwitchingProtocols ELSE Status
        /\ Size' = Size
        /\ Len(sinkCalls') = Len(sinkCalls) + 1
        /\ Last(sinkCalls').op = "Hijack"
        /\ Last(issued').ret = Last(sinkCalls').ret]_vars

\* A successful Hijack on the wrapper of a hijacker and close-notifier sink.
C4_Witness ==
    /\ Wrapped
    /\ wrapper.type = "hijackCloseNotifier"
    /\ Len(issued) = 1
    /\ issued[1].op = "Hijack" /\ ~issued[1].ret[3]
    /\ Status = StatusSwitchingProtocols

\* ---------------------------------------------------------------------- C5
\* C5: every Write, WriteHeader and Header call on the tracker reaches the
\* sink as one call with the same argument, in the same order, and returns
\* what the sink returned: the two call sequences are equal.
C5_TransparentProxy ==
    SelectSeq(issued, IsCore) = SelectSeq(sinkCalls, IsCore)

\* A partial, failing Write followed by a WriteHeader.
C5_Witness ==
    /\ Len(issued) = 2
    /\ IsWrite(issued[1]) /\ issued[1].arg = <<7, 9>>
    /\ issued[1].ret = <<1, TRUE>>
    /\ IsWriteHeader(issued[2])
    /\ sinkCalls = issued

\* ---------------------------------------------------------------------- C6
\* C6: the wrapper exposes Hijack iff the sink supports it and CloseNotify iff
\* the sink supports it, for all four combinations; the choice is made at wrap
\* time and never changes.
C6_CapabilitiesFollowSink ==
    /\ [](Wrapped => /\ ExposesHijack(wrapper) <=> w.hijacker
                     /\ ExposesCloseNotify(wrapper) <=> w.closeNotifier)
    /\ [][Wrapped => wrapper' = wrapper]_vars

\* A close-notifier sink that is no hijacker, at the end of the request.
C6_Witness ==
    /\ pc = "Logged"
    /\ w.closeNotifier /\ ~w.hijacker
    /\ wrapper.type = "closeNotifyWriter"
    /\ ExposesCloseNotify(wrapper) /\ ~ExposesHijack(wrapper)

C8_LoggedIDIsArrivalHeader ==
    (pc = "Logged" /\ HeaderGet(arrivalHeader, TransactionIDHeader) # "")
    => log[1].transaction_id = HeaderGet(arrivalHeader, TransactionIDHeader)

\* ---------------------------------------------------------------------- C9
\* C9: for a request that arrived without the X-Request-Id header, the
\* assigned id is non-empty and the X-Request-Id response header and the
\* transaction_id of the emitted log entry both carry it.
C9_GeneratedIDOnResponseAndLog ==
    (pc = "Logged" /\ TransactionIDHeader \notin DOMAIN arrivalHeader)
    => /\ transactionID # ""
       /\ HeaderGet(respHeader, TransactionIDHeader) = transactionID
       /\ log[1].transaction_id = transactionID

\* --------------------------------------------------------------------- C10
\* C10: when the downstream handler is invoked, and whenever a call of it
\* reaches the sink, the X-Request-Id response header already carries the
\* resolved, non-empty id; the steps occur in the order resolve, set header,
\* wrap, delegate, measure, log.
ClaimedOrder == <<"resolve", "setHeader", "wrap", "delegate", "measure", "log">>
IsClaimedStep(x) == x # "startClock"

C10_HeaderSetBeforeDelegation ==
    /\ [][(pc # "Delegated" /\ pc' = "Delegated") =>
            /\ transactionID # ""
            /\ HeaderGet(respHeader, TransactionIDHeader) = transactionID]_vars
    /\ [][Len(sinkCalls') > Len(sinkCalls) =>
            /\ transactionID # ""
            /\ HeaderGet(respHeader, TransactionIDHeader) = transactionID]_vars
    /\ [](LET taken == SelectSeq(steps, IsClaimedStep)
          IN  /\ Len(taken) <= Len(ClaimedOrder)
              /\ taken = SubSeq(ClaimedOrder, 1, Len(taken)))

\* The downstream handler has committed a response and the request is logged.
C10_Witness ==
    /\ pc = "Logged"
    /\ Len(sinkCalls) >= 1 /\ IsWriteHeader(sinkCalls[1])
    /\ HeaderGet(respHeader, TransactionIDHeader) = "tid_generated"
    /\ SelectSeq(steps, IsClaimedStep) = ClaimedOrder

\* --------------------------------------------------------------------- C11
\* C11: the request handed to the downstream handler carries the resolved id
\* in its context under the transaction id key, and every value of the
\* inbound request's context is still readable from it.
Delegating == pc \in {"Delegated", "Returned", "Measured", "Logged", "Panicked"}

C11_ContextCarriesID ==
    Delegating =>
        /\ ContextValue(handlerContext, TransactionIDKey) = transactionID
        /\ \A k \in DOMAIN reqContext :
              ContextValue(handlerContext, k) = reqContext[k]

\* --------------------------------------------------------------------- C12
\* C12: a request whose downstream handler returned is logged exactly once,
\* after the return: an entry exists exactly when ServeHTTP has reached its
\* end, ServeHTTP cannot stop between the return and the entry, the log only
\* grows by the one entry written after the measurement, and it never holds
\* more than one entry.
C12_OneEntryAfterReturn ==
    /\ [](Len(log) <= 1)
    /\ [](Len(log) = 1 <=> pc = "Logged")
    /\ [](pc \in {"Returned", "Measured"} => ENABLED Next)
    /\ [][log' # log =>
            /\ pc = "Measured"
            /\ Len(log') = Len(log) + 1
            /\ SubSeq(log', 1, Len(log)) = log]_vars

\* The handler wrote to the sink and returned; the one entry is written.
C12_Witness ==
    /\ pc = "Logged"
    /\ Len(log) = 1
    /\ Len(issued) = MaxCalls
    /\ steps[Len(steps)] = "log"

\* --------------------------------------------------------------------- C13
\* C13: a panic of the downstream handler leaves ServeHTTP with the value it
\* was raised with, no log entry is written, ServeHTTP takes no further step
\* and the handler is invoked at most once.
C13_PanicPropagates ==
    /\ [](pc = "Panicked" =>
            /\ propagated \in PanicValues
            /\ log = <<>>
            /\ ~ENABLED Next)
    /\ [](pc # "Panicked" => propagated = NoPanic)
    /\ [](Cardinality({i \in 1..Len(steps) : steps[i] = "delegate"}) <= 1)

\* The handler panicked after a write reached the sink.
C13_Witness ==
    /\ pc = "Panicked"
    /\ propagated = "boom"
    /\ Len(sinkCalls) >= 1 /\ IsWrite(sinkCalls[1])
    /\ log = <<>>

\* --------------------------------------------------------------------- C14
\* C14: the status and size of the emitted entry are the tracker's Status()
\* and Size() as they stood when the downstream handler returned; the size is
\* the sum of the counts the sink accepted during delegation, and a handler
\* that made no Write, WriteHeader or successful Hijack is logged with status
\* 0 and size 0.
C14_EntryReportsTracker ==
    /\ [](pc = "Logged" =>
            /\ log[1].status = Status
            /\ log[1].size = Size
            /\ log[1].size = SumOfWriteCounts(sinkCalls)
            /\ ((\A i \in 1..Len(issued) : ~RecordsStatus(issued[i])) =>
                   log[1].status = 0 /\ log[1].size = 0))
    /\ [][(pc = "Returned" \/ pc = "Measured") =>
             (Status' = Status /\ Size' = Size)]_vars

\* A handler that only read the response headers and returned is logged
\* with status 0 and size 0.
C14_Witness ==
    /\ pc = "Logged"
    /\ Len(issued) = 1
    /\ issued[1].op = "Header"
    /\ log[1].status = 0
    /\ log[1].size = 0

\* ------------------------------------------- vocabulary of the header claims
Redacted == stage \in {"redacted", "reredacted", "logged", "scanned"}
Reredacted == stage \in {"reredacted", "logged", "scanned"}

\* The names the built-in list names in full, in lower case.
ExactDenied ==
    {
     <<"u", "s", "e", "r", "-", "a", "g", "e", "n", "t">>,
     <<"r", "e", "f", "e", "r", "e", "r">>,
     <<"x", "-", "r", "e", "q", "u", "e", "s", "t", "-", "i", "d">>,
     <<"x", "-", "a", "p", "i", "-", "k", "e", "y">>,
     <<"x", "-", "v", "a", "r", "n", "i", "s", "h">>,
     <<"x", "-", "t", "i", "m", "e", "r">>,
     <<"c", "o", "n", "n", "e", "c", "t", "i", "o", "n">>,
     <<"c", "o", "n", "t", "e", "n", "t", "-", "l", "e", "n", "g", "t", "h">>,
     <<"c", "d", "n", "-", "l", "o", "o", "p">>
    }
\* The name is on the built-in list: one of the exact names in any letter
\* case, or a name beginning with Fastly in any letter case.
BuiltInDenied(name) ==
    \/ Fold(name) \in ExactDenied
    \/ Len(name) >= 6 /\ Fold(SubSeq(name, 1, 6)) = <<"f", "a", "s", "t", "l", "y">>

\* The caller's filter, if there is one, returns true for the name.
FilterKeeps(name) == headerFilter = NilFilter \/ CallFilter(headerFilter, name)

\* --------------------------------------------------------------------- C16
\* C16: a header whose name, compared without regard to letter case, is one
\* of the exact built-in names or begins with Fastly is never logged; with
\* the built-in list alone every other name is logged, names that only
\* extend an exact entry (X-Varnishpassthrough) included.
C16_BuiltInDenyList ==
    Redacted =>
        \A k \in DOMAIN request.Header :
            /\ BuiltInDenied(k) => k \notin DOMAIN redacted
            /\ (~BuiltInDenied(k) /\ headerFilter = NilFilter) =>
                   k \in DOMAIN redacted

C16_Witness ==
    /\ stage = "redacted"
    /\ headerFilter = NilFilter
    /\ DOMAIN request.Header = {<<"x", "-", "a", "p", "i", "-", "k", "e", "y">>, <<"X", "-", "V", "a", "r", "n", "i", "s", "h", "p", "a", "s", "s", "t", "h", "r", "o", "u", "g", "h">>}
    /\ DOMAIN redacted = {<<"X", "-", "V", "a", "r", "n", "i", "s", "h", "p", "a", "s", "s", "t", "h", "r", "o", "u", "g", "h">>}

\* --------------------------------------------------------------------- C17
\* C17: a header is logged exactly when the built-in list does not match its
\* name and the caller's filter, if any, returns true for it; a filter that
\* returns true for a built-in denied name does not make it logged.
C17_FilterOnlyRemoves ==
    Redacted =>
        /\ DOMAIN redacted \subseteq DOMAIN request.Header
        /\ \A k \in DOMAIN request.Header :
              k \in DOMAIN redacted <=> (~BuiltInDenied(k) /\ FilterKeeps(k))

C17_Witness ==
    /\ stage = "redacted"
    /\ headerFilter = [kind |-> "keepAll"]
    /\ DOMAIN request.Header = {<<"X", "-", "A", "p", "i", "-", "K", "e", "y">>, <<"A", "c", "c", "e", "p", "t">>}
    /\ DOMAIN redacted = {<<"A", "c", "c", "e", "p", "t">>}

\* --------------------------------------------------------------------- C18
\* Two names of the request that differ only in letter case are both logged
\* or both left out.
CaseBlind ==
    \A k1 \in DOMAIN request.Header, k2 \in DOMAIN request.Header :
        Fold(k1) = Fold(k2) => (k1 \in DOMAIN redacted <=> k2 \in DOMAIN redacted)

\* The caller's filter gives one answer for all spellings of a name: the
\* answer it gives for the lower-case spelling.
FilterIgnoresCase ==
    \/ headerFilter = NilFilter
    \/ \A k \in HeaderNames :
          CallFilter(headerFilter, k) = CallFilter(headerFilter, Fold(k))

\* C18 as stated: redacting the redacted headers again gives the same names
\* and values, and a name denied in one letter case is denied in every
\* letter case, whatever the caller's filter.
C18_IdempotentAndCaseBlind ==
    Reredacted => (reredacted = redacted /\ CaseBlind)

\* C18: redacting the redacted headers again gives the same names and values;
\* a name on the built-in list is denied in every letter case, and a name
\* denied by the caller's filter is denied in every letter case when that
\* filter itself ignores letter case.
C18_IdempotentBuiltInCaseBlind ==
    Reredacted =>
        /\ reredacted = redacted
        /\ \A k1 \in DOMAIN request.Header, k2 \in DOMAIN request.Header :
              (Fold(k1) = Fold(k2) /\ BuiltInDenied(k1)) =>
                  k2 \notin DOMAIN redacted
        /\ FilterIgnoresCase => CaseBlind

C18_Witness ==
    /\ stage = "reredacted"
    /\ headerFilter = [kind |-> "dropEqualFold", name |-> DeniedHeader]
    /\ DOMAIN request.Header = {<<"D", "e", "n", "i", "e", "d", "-", "H", "e", "a", "d", "e", "r">>, <<"A", "l", "l", "o", "w", "e", "d", "-", "H", "e", "a", "d", "e", "r">>}
    /\ DOMAIN redacted = {<<"A", "l", "l", "o", "w", "e", "d", "-", "H", "e", "a", "d", "e", "r">>}
    /\ redacted[<<"A", "l", "l", "o", "w", "e", "d", "-", "H", "e", "a", "d", "e", "r">>] = "header1, header2"
    /\ reredacted = redacted

\* --------------------------------------------------------------------- C19
\* The string holds the values in their order, separated by ", ".
JoinedInOrder(vals, str) ==
    CASE Len(vals) = 1 -> str = vals[1]
      [] Len(vals) = 2 -> str = vals[1] \o ", " \o vals[2]

\* C19: each logged header maps its name, as spelled in the request's header
\* map, to all values of that header in their order joined with ", "; the
\* entry carries that mapping, and the request is left unchanged.
C19_ValuesJoinedInOrder ==
    /\ [](Redacted =>
            \A k \in DOMAIN redacted :
                /\ k \in DOMAIN request.Header
                /\ JoinedInOrder(request.Header[k], redacted[k]))
    /\ []((stage = "logged" /\ "headers" \in DOMAIN emitted) =>
            emitted.headers = redacted)
    /\ [][request' = request]_vars

C19_Witness ==
    /\ stage = "logged"
    /\ DOMAIN request.Header = {<<"A", "l", "l", "o", "w", "e", "d", "-", "H", "e", "a", "d", "e", "r">>, <<"A", "c", "c", "e", "p", "t">>}
    /\ request.Header[<<"A", "l", "l", "o", "w", "e", "d", "-", "H", "e", "a", "d", "e", "r">>] = <<"header1", "header2">>
    /\ emitted.headers[<<"A", "l", "l", "o", "w", "e", "d", "-", "H", "e", "a", "d", "e", "r">>] = "header1, header2"
    /\ emitted.headers[<<"A", "c", "c", "e", "p", "t">>] = "header1"

\* --------------------------------------------------------------------- C20
\* C20: the entry has a headers field exactly when a header survived
\* redaction and a uuid field exactly when the logged URI holds a UUID;
\* neither field is present with an empty value.
C20_OptionalFields ==
    stage = "logged" =>
        /\ "headers" \in DOMAIN emitted <=>
              \E k \in DOMAIN request.Header : ~BuiltInDenied(k) /\ FilterKeeps(k)
        /\ "uuid" \in DOMAIN emitted <=>
              \E i \in 1..Len(emitted.uri) : MatchesUUIDAt(emitted.uri, i)
        /\ "headers" \in DOMAIN emitted => DOMAIN emitted.headers # {}
        /\ "uuid" \in DOMAIN emitted => Len(emitted.uuid) >= UUIDLen

\* A CONNECT over HTTP/2 whose authority holds a UUID, with no header left.
C20_Witness ==
    /\ stage = "logged"
    /\ request.Method = "CONNECT" /\ request.ProtoMajor = 2
    /\ request.Header = NoHeader
    /\ request.RequestURI = <<"/">>
    /\ emitted.uri = UUID2
    /\ "headers" \notin DOMAIN emitted
    /\ emitted.uuid = UUID2

\* --------------------------------------------------------------------- C15
RECURSIVE Replay(_)
\* The fields of a tracker that started at 0 and 0 and saw these calls.
Replay(calls) ==
    IF calls = <<>> THEN NewResponseLogger
    ELSE LET before == Replay(SubSeq(calls, 1, Len(calls) - 1))
             c == calls[Len(calls)]
         IN  IF c.op = "Write" THEN WriteState(before, c.ret[1], c.ret[2])
             ELSE WriteHeaderState(before, c.arg)

\* The id of the request of g: the X-Request-Id it arrived with, or the id
\* generated for it.
OwnID(g) == {ArrivalID[g], GeneratedID[g]}

UUIDStarts(uri) ==
    {i \in 1..Len(uri) :
        /\ i + 35 <= Len(uri)
        /\ \A j \in 0..35 :
              IF j \in {8, 13, 18, 23} THEN uri[i + j] = "-"
              ELSE uri[i + j] \in HexDigits
        /\ uri[i + 14] \in {"1", "2", "3", "4", "5"}
        /\ uri[i + 19] \in {"8", "9", "a", "b", "A", "B"}}

\* The starts a left-to-right scan without overlap takes: a start is taken
\* exactly when no taken start before it covers it.
IsLeftmostNonOverlapping(taken, starts) ==
    /\ taken \subseteq starts
    /\ \A i \in starts :
          i \in taken <=> ~\E j \in taken : j < i /\ i < j + 36

\* C21: getUUIDsFromURI returns the substrings at the starts taken left to
\* right without overlap, in order of appearance, as spelled in the input,
\* repeated ones included; nothing when the input has no match.
C21_LeftToRightMatches ==
    stage = "scanned" =>
        LET uri == emitted.uri
        IN  \E taken \in SUBSET UUIDStarts(uri) :
               /\ IsLeftmostNonOverlapping(taken, UUIDStarts(uri))
               /\ Len(found) = Cardinality(taken)
               /\ \A i \in taken :
                     found[Cardinality({j \in taken : j <= i})] =
                         SubSeq(uri, i, i + 35)

\* Two matches, the second spelled in upper case; a match that begins inside
\* another is not returned; a wrong version digit gives nothing.
C21_Witness ==
    /\ stage = "scanned"
    /\ emitted.uri = ContentPath \o UUID1 \o <<"/">> \o UUID2
    /\ found = <<UUID1, UUID2>>

\* --------------------------------------------------------------------- C22
\* The uri by the rule with the given test of the protocol major version.
UriByRule(authorityForMajor) ==
    LET chosen == IF request.Method = "CONNECT" /\ authorityForMajor
                  THEN request.Host ELSE request.RequestURI
    IN  IF chosen = <<>> THEN request.URLRequestURI ELSE chosen

\* C22 as stated: the logged uri is the request-target, or the authority for
\* a CONNECT over a major version of 2 or higher, or the URL's request URI
\* when the value chosen is empty.
C22_AuthorityFromMajor2Up ==
    stage \in {"logged", "scanned"} =>
        emitted.uri = UriByRule(request.ProtoMajor >= 2)

\* C22: the logged uri is the request-target, or the authority for a CONNECT
\* over major version 2 exactly (a CONNECT over any other major version logs
\* the request-target), or the URL's request URI when the value chosen is
\* empty.
C22_AuthorityForMajor2Only ==
    stage \in {"logged", "scanned"} =>
        emitted.uri = UriByRule(request.ProtoMajor = 2)

\* CONNECT over major version 3 logs the request-target.
C22_Witness ==
    /\ stage = "logged"
    /\ request.Method = "CONNECT" /\ request.ProtoMajor = 3
    /\ request.Host = UUID2
    /\ request.RequestURI = ContentPath \o UUID1
    /\ emitted.uri = ContentPath \o UUID1

\* ---------------------------------------------- vocabulary of the gzip claims
\* The request declares its body gzip-encoded.
DeclaresGzip == HeaderGet(gzArrival.Header, ContentEncoding) = "gzip"
\* The data the arriving body is the gzip stream of, as a set: empty when
\* the body is no sound gzip stream.
Unzipped ==
    {d \in {PlainText, gz(PlainText)} : gzArrival.Body.raw = gz(d)}
\* Every wrapper and the handler have run, or a wrapper answered.
GzipDone == gzStatus # 0

\* --------------------------------------------------------------------- C23
\* C23: a request that declares gzip and whose body is a sound gzip stream
\* reaches the wrapped handler once, with a body that reads as the data
\* unzipped and without Content-Encoding, its other headers kept; a request
\* that does not declare gzip reaches it once with body and headers as they
\* arrived, a gzip stream included.
C23_UnzipsWhenDeclared ==
    /\ Len(delivered) <= 1
    /\ (DeclaresGzip /\ Unzipped # {}) =>
          /\ gzStatus # StatusBadRequest
          /\ GzipDone => Len(delivered) = 1
          /\ \A i \in 1..Len(delivered) :
                /\ delivered[i].body.data \in Unzipped
                /\ ~delivered[i].body.err
                /\ delivered[i].header = HeaderDel(gzArrival.Header, ContentEncoding)
    /\ ~DeclaresGzip =>
          /\ gzStatus # StatusBadRequest
          /\ GzipDone => Len(delivered) = 1
          /\ \A i \in 1..Len(delivered) :
                /\ delivered[i].body = [data |-> gzArrival.Body.raw, err |-> FALSE]
                /\ delivered[i].header = gzArrival.Header

\* A declared gzip stream arrives with a Content-Type; the handler reads the
\* plain text and sees the Content-Type only.
C23_Witness ==
    /\ gzStatus = StatusOK
    /\ gzArrival.Body.raw = gz(PlainText)
    /\ DOMAIN gzArrival.Header = {ContentEncoding, ContentType}
    /\ DeclaresGzip
    /\ Len(delivered) = 1
    /\ delivered[1].body = [data |-> PlainText, err |-> FALSE]
    /\ DOMAIN delivered[1].header = {ContentType}

\* --------------------------------------------------------------------- C24
\* C24: a request that declares gzip and whose body does not unzip is
\* answered with 400, never reaches the wrapped handler, and keeps its body
\* and its Content-Encoding header.
C24_RejectsWhatDoesNotUnzip ==
    (DeclaresGzip /\ Unzipped = {}) =>
        /\ delivered = <<>>
        /\ gzStatus \in {0, StatusBadRequest}
        /\ gzReq = gzArrival

\* --------------------------------------------------------------------- C25
\* What one application of the handler gives the wrapped handler.
AppliedOnce ==
    LET r == requestBodyGzipHandler(gzArrival)
    IN  [forward |-> r.forward,
         status  |-> r.status,
         body    |-> ReadAll(r.req.Body),
         header  |-> r.req.Header]

\* C25: a chain of two or more applications gives the wrapped handler the
\* body and headers one application gives it, invokes it in the same cases
\* and answers 400 in the same cases.
C25_ChainAsOnce ==
    /\ Len(delivered) <= 1
    /\ \A i \in 1..Len(delivered) :
          /\ AppliedOnce.forward
          /\ delivered[i].body = AppliedOnce.body
          /\ delivered[i].header = AppliedOnce.header
    /\ (GzipDone /\ delivered = <<>>) =>
          (~AppliedOnce.forward /\ gzStatus = AppliedOnce.status)
    /\ (GzipDone /\ delivered # <<>>) => gzStatus \in StatusCodes

\* Two applications on a doubly zipped body: the second leaves the inner
\* gzip stream zipped, as one application does.
C25_Witness ==
    /\ chain = 2
    /\ DeclaresGzip
    /\ gzArrival.Body.raw = gz(gz(PlainText))
    /\ Len(delivered) = 1
    /\ delivered[1].body = [data |-> gz(PlainText), err |-> FALSE]
    /\ gzStatus = 404

\* --------------------------------------------------------------------- C30
\* The status the sink committed to the client: the code of the first
\* WriteHeader, or 200 if a Write came first; 0 while it received neither.
SinkCommitted(calls) ==
    LET committing == {i \in 1..Len(calls) : IsWrite(calls[i]) \/ IsWriteHeader(calls[i])}
    IN  IF committing = {} THEN 0
        ELSE LET first == CHOOSE i \in committing : \A j \in committing : i <= j
             IN  IF IsWriteHeader(calls[first]) THEN calls[first].arg ELSE StatusOK

\* C30: after any sequence of Write and WriteHeader calls the status the
\* tracker recorded is the status the sink committed to the client.
C30_StatusIsSinkCommitted ==
    (Wrapped /\ \A i \in 1..Len(issued) : IsWrite(issued[i]) \/ IsWriteHeader(issued[i]))
        => Status = SinkCommitted(sinkCalls)

\* --------------------------------------------------------------------- C26
\* The count of the timer named m, 0 when there is none.
CountOf(r, m) == IF m \in DOMAIN r THEN r[m].count ELSE 0
ServedWith(m) == {r \in MetricsRequests : mMethod[r] = m /\ mpc[r] = "Done"}

\* C26: every request invokes the wrapped handler once; the timer named
\* after a method counts what it counted before the first request plus the
\* requests of that method served, being created by the first of them when
\* it was absent; a method no request used keeps its timer as it was.
C26_TimerCountsRequests ==
    /\ \A r \in MetricsRequests :
          /\ invoked[r] <= 1
          /\ invoked[r] = 1 <=> mpc[r] \in {"Returned", "Done"}
    /\ \A m \in Methods :
          /\ CountOf(registry, m) = CountOf(registry0, m) + Cardinality(ServedWith(m))
          /\ m \in DOMAIN registry <=>
                \/ m \in DOMAIN registry0
                \/ \E r \in MetricsRequests : mMethod[r] = m /\ mpc[r] # "Start"
          /\ (\A r \in MetricsRequests : mMethod[r] # m) =>
                IF m \in DOMAIN registry0 THEN registry[m] = registry0[m]
                ELSE m \notin DOMAIN registry

\* Two GET requests and one PUT on a registry holding a GET timer with one
\* update: GET counts 3, and PUT, created on the way, 1.
C26_Witness ==
    /\ DOMAIN registry0 = {"GET"}
    /\ \A r \in MetricsRequests : mpc[r] = "Done"
    /\ Cardinality(ServedWith("GET")) = 2
    /\ registry["GET"].count = 3
    /\ registry["PUT"].count = 1

\* --------------------------------------------------------------------- C27
\* C27: Do leaves an X-Request-Id the request already has, the empty one
\* included; without one it sets the id the context carries, and without
\* either the header stays absent; the inner client's Do is then called
\* once, with that request, and what it returns is returned.
C27_TransactionIDNotOverridden ==
    /\ cpc \in {"TidDone", "Returned"} =>
          IF TransactionIDHeader \in DOMAIN cArrival.Header
          THEN cReq.Header[TransactionIDHeader] = cArrival.Header[TransactionIDHeader]
          ELSE IF TransactionIDKey \in DOMAIN cArrival.Context
          THEN cReq.Header[TransactionIDHeader] = <<cArrival.Context[TransactionIDKey]>>
          ELSE TransactionIDHeader \notin DOMAIN cReq.Header
    /\ cpc # "Returned" => (innerCalls = <<>> /\ returned = "none")
    /\ cpc = "Returned" =>
          (innerCalls = <<cReq>> /\ returned = innerResult)

\* The request has its own id and the context another: the inner client
\* receives the request's id and its error is returned.
C27_Witness ==
    /\ cpc = "Returned"
    /\ HeaderGet(cArrival.Header, TransactionIDHeader) = "tid_request"
    /\ ContextValue(cArrival.Context, TransactionIDKey) = "tid_test"
    /\ HeaderGet(innerCalls[1].Header, TransactionIDHeader) = "tid_request"
    /\ returned.err = "connection refused"

\* --------------------------------------------------------------------- C28
\* The User-Agent Do builds: ServiceCode/Version, then the runbook in
\* " (+...)" when there is one.
BuiltAgent ==
    client.ServiceCode \o "/" \o client.Version \o
        (IF client.Runbook = "" THEN "" ELSE " (+" \o client.Runbook \o ")")

\* C28: Do sets User-Agent to the built value only when the request has no
\* User-Agent at all; a User-Agent the request has, the empty string
\* included, reaches the inner client as it was, and so does every header
\* other than User-Agent and X-Request-Id.
C28_UserAgentOnlyWhenAbsent ==
    /\ cpc # "Start" =>
          /\ IF UserAgentHeader \in DOMAIN cArrival.Header
             THEN cReq.Header[UserAgentHeader] = cArrival.Header[UserAgentHeader]
             ELSE cReq.Header[UserAgentHeader] = <<BuiltAgent>>
          /\ DOMAIN cReq.Header \subseteq
                DOMAIN cArrival.Header \cup {UserAgentHeader, TransactionIDHeader}
          /\ \A k \in DOMAIN cArrival.Header \ {UserAgentHeader, TransactionIDHeader} :
                k \in DOMAIN cReq.Header /\ cReq.Header[k] = cArrival.Header[k]
    /\ \A i \in 1..Len(innerCalls) : innerCalls[i].Header = cReq.Header

\* A request whose User-Agent is set to the empty string keeps it.
C28_Witness ==
    /\ cpc = "Returned"
    /\ client.Runbook = "runbook.com"
    /\ HeaderValues_(cArrival.Header, UserAgentHeader) = <<"">>
    /\ HeaderValues_(innerCalls[1].Header, UserAgentHeader) = <<"">>

\* --------------------------------------------------------------------- C29
RECURSIVE SumAccepted(_)
\* The bytes the wrapped sink accepted over the given calls.
SumAccepted(calls) ==
    IF calls = <<>> THEN 0 ELSE calls[1].n + SumAccepted(Tail(calls))

AllTasksDone == \A t \in Tasks : rpc[t] = "Done"

\* C29: when several tasks write through one responseLogger, then once all
\* of them returned, its size is the sum of the byte counts the sink
\* accepted and its status is a value one of the tasks stored.
C29_NoUpdateLost ==
    AllTasksDone =>
        /\ shared.size = SumAccepted(rSinkCalls)
        /\ shared.status \in rRecorded

\* The part of C29 about the status alone.
C29_StatusWasRecorded == AllTasksDone => shared.status \in rRecorded

\* Two Writes have returned and the size misses one of them.
C29_LostUpdate ==
    /\ AllTasksDone
    /\ \A t \in Tasks : rOp[t].kind = "Write"
    /\ shared.size < SumAccepted(rSinkCalls)

====
